---- MODULE Spec2Model ----
(***************************************************************************)
(* The node driver of stegos (node/src/lib.rs): sealed-block ingestion,   *)
(* the fork resolver, the orphan buffer, pop_block, the micro-block       *)
(* propose timer and the role state.  The Blockchain, the chain loader    *)
(* and the network are collaborators whose code is not part of the        *)
(* sources; they are modelled from their documented interface.            *)
(***************************************************************************)
EXTENDS Integers, Sequences, FiniteSets, TLC

VARIABLES
    chain_blocks,             \* chain: the last macro block followed by the micro blocks of the epoch
    last_macro_block_height,  \* chain.last_macro_block_height()
    epoch,                    \* chain.epoch()
    view_change,              \* chain.view_change()
    view_change_proof,        \* chain.view_change_proof()
    validators,               \* chain.validators()
    validation,               \* NodeService.validation (role state)
    future_blocks,            \* NodeService.future_blocks (orphans by height)
    initialized,              \* NodeService::init() has run
    polled,                   \* NodeService::poll() has run poll_timers since init()
    aborted,                  \* the driver hit a panic!/assert!
    on_block_added,           \* NodeService.on_block_added (subscribers, in order)
    on_epoch_changed,         \* NodeService.on_epoch_changed
    on_outputs_changed,       \* NodeService.on_outputs_changed
    msig,                     \* a use of the multi-signature functions: arguments and results
    cmsg,                     \* a use of ConsensusMessage::new and validate: arguments and results
    wallet,                   \* a use of the wallet's transaction functions: arguments and results
    mempool,                  \* NodeService.mempool: the transactions queued, in order
    last_block_clock          \* NodeService.last_block_clock, on the scale of the armed timer

vars == <<chain_blocks, last_macro_block_height, epoch, view_change, view_change_proof,
          validators, validation, future_blocks, initialized, polled, aborted,
          on_block_added, on_epoch_changed, on_outputs_changed, msig, cmsg, wallet, mempool,
          last_block_clock>>

\* The state of the node driver.
node_vars == <<chain_blocks, last_macro_block_height, epoch, view_change, view_change_proof,
               validators, validation, future_blocks, initialized, polled, aborted,
               on_block_added, on_epoch_changed, on_outputs_changed, last_block_clock>>

\* No use of the signature functions is followed.
NoCall == [step |-> "none"]

----------------------------------------------------------------------------
\* Bounds of the model.

\* cfg.blocks_in_epoch: the macro block counts, so an epoch is one macro
\* block followed by BlocksInEpoch - 1 micro blocks.
BlocksInEpoch == 3
\* Largest view_change number a block or the chain carries, and largest
\* consensus round.
MaxView == 1
\* Largest chain.height() the model lets the chain grow to; the sealed-block
\* topic delivers blocks of any kind while the chain is below it.
MaxHeight == 4
\* Largest number of orphans the buffer holds between two events.
MaxOrphans == 1
\* The longest buffer of future consensus messages.
MaxMessages == 2
\* The most subscribers the three lists hold together.
MaxSubscribers == 2

\* cfg.max_utxo_in_tx
MaxUtxoInTx == 4
\* cfg.max_utxo_in_mempool
MaxUtxoInMempool == 6
\* cfg.max_utxo_in_block
MaxUtxoInBlock == 4

\* How many timeouts after its deadline a ready timer is polled, at most.
MaxDelay == 1

\* cfg.block_reward
cfg_block_reward == 60

Keys == {"A", "B", "C"}
\* keys.network_pkey
SelfKey == "A"
KeyIndex(k) == CASE k = "A" -> 0 [] k = "B" -> 1 [] OTHER -> 2
ValidatorSets == {{"A", "B"}, {"B", "C"}}

----------------------------------------------------------------------------
\* Blocks, hashes, view-change proofs.

NullHash == <<>>
\* The hash of a block this node has never seen.
ForeignHash == <<"foreign">>

\* ChainInfo {height, last_block, view_change}
ChainInfo(h, last, v) == [height |-> h, last_block |-> last, view_change |-> v]
NoChainInfo == ChainInfo(-1, NullHash, 0)

\* A view-change proof is a multi-signature; it verifies against exactly the
\* ChainInfo the supermajority signed (none for a forged one).
Proof(ci) == [present |-> TRUE, signed |-> ci]
NoProof == [present |-> FALSE, signed |-> NoChainInfo]
ForgedProof == Proof(NoChainInfo)

MicroBlock(h, v, prev, pk, body, reward, proof) ==
    [kind |-> "micro", height |-> h, view_change |-> v, previous |-> prev, pkey |-> pk,
     body |-> body, block_reward |-> reward, proof |-> proof, validators |-> {},
     transactions |-> <<>>]

MacroBlock(h, v, prev, pk, body, reward, vals) ==
    [kind |-> "macro", height |-> h, view_change |-> v, previous |-> prev, pkey |-> pk,
     body |-> body, block_reward |-> reward, proof |-> NoProof, validators |-> vals,
     transactions |-> <<>>]

\* Hash::digest(&block): injective on the content of a block, the previous
\* pointer included.
Hash(b) ==
    IF b.kind = "micro"
    THEN <<"micro", b.height, b.view_change, b.previous, b.pkey, b.body, b.block_reward,
           b.proof.present, b.proof.signed.height, b.proof.signed.last_block,
           b.proof.signed.view_change, b.transactions>>
    ELSE <<"macro", b.height, b.view_change, b.previous, b.pkey, b.body, b.block_reward,
           b.validators>>

\* base_header().random: the VRF output of the producer for the block's slot.
Random(b) == (KeyIndex(b.pkey) + b.view_change + b.height) % 2

\* ChainInfo::from_block: the proof a block carries is for the view before its own.
ChainInfoFromBlock(b) == ChainInfo(b.height, b.previous, b.view_change - 1)

\* ViewChangeProof::validate(&chain_info, &blockchain)
ProofValidate(proof, ci) == proof.present /\ proof.signed = ci

----------------------------------------------------------------------------
\* The work state handlers run on, and the effects of one event.

NoEffects ==
    [cheats |-> 0, forks |-> 0, outputs_changed |-> 0, block_added |-> <<>>,
     epoch_changed |-> 0, request_history |-> 0, request_history_from |-> <<>>,
     send_blocks |-> <<>>, sent_proofs |-> <<>>, sealed |-> <<>>, votes |-> <<>>,
     autocommit |-> 0, consensus |-> <<>>, multisig |-> <<>>, fed |-> <<>>,
     pushed |-> <<>>, popped |-> 0]

\* A subscriber: the sending half of an unbounded channel.  tx names the
\* channel, open is whether its receiver is still there, received is what was
\* sent into it during the event.
Channel(tx, open) == [tx |-> tx, open |-> open, received |-> <<>>]

\* The subscriber lists as an event finds them.
Subscribers(list) == [i \in 1..Len(list) |-> Channel(list[i].tx, list[i].open)]

\* Time.  The driver compares instants in one place only: a view-change timer
\* handler asserts that clock::now() is at least one timeout (micro_block_timeout,
\* macro_block_timeout) after last_block_clock.  Instants are counted in whole
\* timeouts of that handler from the arming of the armed view-change timer:
\* n is the instant n timeouts after the arming, and 0 stands for every
\* instant not later than the arming as well.  last_block_clock is 0 while no
\* view-change timer is armed (the next arming is not earlier than it).
\* w.now is clock::now() of the event.  Instants do not decrease from one
\* event to the next.  An event may come before the deadline, at it, or after
\* it with the timer still armed: poll() runs poll_timers once and then
\* handles every queued event (lines 1559-1610), so an event of the queue is
\* handled after a deadline that passed in the meantime.  A timer that is
\* ready is polled at its deadline or later.

\* The deadline of the view-change timer: lines 1075 and 1414
\* (now + micro_block_timeout), 1114-1115 (now + (1 + round) * macro_block_timeout).
ViewChangeDeadline(w) ==
    IF w.validation.kind = "MacroBlockValidator" THEN 1 + w.validation.round ELSE 1

W ==
    [chain_blocks |-> chain_blocks, last_macro_block_height |-> last_macro_block_height,
     epoch |-> epoch, view_change |-> view_change, view_change_proof |-> view_change_proof,
     validators |-> validators, validation |-> validation, future_blocks |-> future_blocks,
     on_block_added |-> Subscribers(on_block_added),
     on_epoch_changed |-> Subscribers(on_epoch_changed),
     on_outputs_changed |-> Subscribers(on_outputs_changed),
     mempool |-> mempool, last_block_clock |-> last_block_clock,
     net_ok |-> TRUE, now |-> ViewChangeDeadline([validation |-> validation]),
     out |-> NoEffects]

\* The state an event finds: the network up or gone, and the instant.
At(w, net_ok, now) == [w EXCEPT !.net_ok = net_ok, !.now = now]

\* self.last_block_clock = clock::now()
SetLastBlockClock(w) ==
    [w EXCEPT !.last_block_clock = IF w.validation.view_change_timer THEN w.now ELSE 0]

\* The instants an event may come at while the timer is armed: from the
\* arming instant itself (an event of the poll() that armed the timer, the
\* clock not advanced) up to MaxDelay timeouts after the deadline, and not
\* before the last recorded instant.
NowInputs(w) ==
    IF w.validation.view_change_timer
    THEN { n \in 0..(ViewChangeDeadline(w) + MaxDelay) : n >= w.last_block_clock }
    ELSE {1}

\* The instants a poll may find the view-change timer ready at: the deadline
\* or later, not before the last recorded instant, and up to a timeout after
\* the latest event.
PollInputs(w) ==
    { n \in ViewChangeDeadline(w)..(ViewChangeDeadline(w) + MaxDelay + 1) :
        n >= w.last_block_clock }

\* An error value: the Rust type that carries it and the variant.
Err(type, name) == [type |-> type, name |-> name]
NoErr == Err("", "")

\* network.publish fails once the network service is gone (the control
\* channel's receiver dropped): w.net_ok is whether it is there during the event.
NetworkError == Err("SendError", "Disconnected")

\* What a handler returns: the state it leaves, Ok / Canceled / Error / Panic, the error.
Ret(w, result, err) == [w |-> w, result |-> result, err |-> err]

----------------------------------------------------------------------------
\* Blockchain (interface of the chain component).

Height(w) == w.last_macro_block_height + Len(w.chain_blocks)
ChainBlocksInEpoch(w) == Len(w.chain_blocks)
BlockByHeight(w, h) == w.chain_blocks[h - w.last_macro_block_height + 1]
LastBlock(w) == w.chain_blocks[Len(w.chain_blocks)]
LastBlockHash(w) == Hash(LastBlock(w))
LastRandom(w) == Random(LastBlock(w))
IsValidator(w, pk) == pk \in w.validators

\* The validators in canonical order (by public key).
RECURSIVE SortedKeys(_)
SortedKeys(S) ==
    IF S = {} THEN <<>>
    ELSE LET m == CHOOSE k \in S : \A o \in S : KeyIndex(k) <= KeyIndex(o)
         IN <<m>> \o SortedKeys(S \ {m})

\* election_result.select_leader(view_change)
SelectLeaderFrom(vals, random, v) ==
    LET s == SortedKeys(vals) IN s[((random + v) % Len(s)) + 1]

\* chain.select_leader(view_change)
SelectLeader(w, v) == SelectLeaderFrom(w.validators, LastRandom(w), v)
\* chain.leader()
Leader(w) == SelectLeader(w, w.view_change)

ChainInfoFromBlockchain(w) == ChainInfo(Height(w), LastBlockHash(w), w.view_change)

\* chain.set_view_change(view_change, proof)
SetViewChange(w, v, proof) == [w EXCEPT !.view_change = v, !.view_change_proof = proof]

\* The chain's validation of a micro block offered at its tip.
MicroBlockError(w, b) ==
    IF b.previous # LastBlockHash(w) THEN "InvalidPreviousHash"
    ELSE IF b.view_change < w.view_change THEN "InvalidViewChange"
    ELSE IF b.view_change > w.view_change /\ ~b.proof.present THEN "NoProofWasFound"
    ELSE IF b.view_change > w.view_change /\ ~ProofValidate(b.proof, ChainInfoFromBlock(b))
         THEN "InvalidViewChangeProof"
    ELSE IF SelectLeader(w, b.view_change) # b.pkey THEN "DifferentPublicKey"
    ELSE ""

\* chain.push_micro_block(block, timestamp)
PushMicroBlock(w, b) ==
    [w EXCEPT !.chain_blocks = Append(@, b), !.view_change = 0, !.view_change_proof = NoProof,
              !.out.pushed = Append(@, b)]

\* chain.pop_micro_block(): refuses at the macro block boundary.
PopRefused(w) == Len(w.chain_blocks) <= 1
PopMicroBlock(w) ==
    [w EXCEPT !.chain_blocks = SubSeq(@, 1, Len(@) - 1), !.view_change = 0,
              !.view_change_proof = NoProof, !.out.popped = @ + 1]

\* The chain's validation of a macro block offered at its tip.
MacroBlockError(w, b) ==
    IF b.previous # LastBlockHash(w) THEN "InvalidPreviousHash" ELSE ""

\* chain.push_macro_block(block, timestamp): the epoch is finalized.
PushMacroBlock(w, b) ==
    [w EXCEPT !.chain_blocks = <<b>>,
              !.last_macro_block_height = b.height,
              !.epoch = @ + 1,
              !.validators = b.validators,
              !.view_change = 0,
              !.view_change_proof = NoProof,
              !.out.pushed = Append(@, b)]

----------------------------------------------------------------------------
\* Mempool (interface of the mempool component).  A transaction is given by
\* the number of its inputs and of its outputs; two queued transactions that
\* look alike are still two transactions.

\* tx.txins().len() and tx.txouts().len()
Transaction(txins, txouts) == [txins |-> txins, txouts |-> txouts]

RECURSIVE MempoolInputsLen(_)
\* mempool.inputs_len(): the inputs of the queued transactions
MempoolInputsLen(pool) ==
    IF pool = <<>> THEN 0 ELSE Head(pool).txins + MempoolInputsLen(Tail(pool))

RECURSIVE MempoolOutputsLen(_)
\* mempool.outputs_len(): the outputs of the queued transactions
MempoolOutputsLen(pool) ==
    IF pool = <<>> THEN 0 ELSE Head(pool).txouts + MempoolOutputsLen(Tail(pool))

\* mempool.push_tx(tx_hash, tx)
MempoolPushTx(pool, tx) == Append(pool, tx)

RECURSIVE MempoolTake(_, _)
\* The longest run of queued transactions, oldest first, within utxo inputs
\* and outputs.
MempoolTake(pool, utxo) ==
    IF pool = <<>> \/ Head(pool).txins + Head(pool).txouts > utxo THEN <<>>
    ELSE <<Head(pool)>> \o MempoolTake(Tail(pool), utxo - Head(pool).txins - Head(pool).txouts)

\* mempool.create_block(.., max_utxo_in_block): the transactions of the new
\* block; they stay queued until a block that carries them is applied.
MempoolCreateBlock(pool) == MempoolTake(pool, MaxUtxoInBlock)

RECURSIVE MempoolRemove(_, _)
\* The queue without the first transaction equal to tx.
MempoolRemove(pool, tx) ==
    IF pool = <<>> THEN <<>>
    ELSE IF Head(pool) = tx THEN Tail(pool)
    ELSE <<Head(pool)>> \o MempoolRemove(Tail(pool), tx)

RECURSIVE MempoolPrune(_, _)
\* mempool.prune(input_hashes, output_hashes): the transactions a block
\* carries leave the queue.
MempoolPrune(pool, txs) ==
    IF txs = <<>> THEN pool ELSE MempoolPrune(MempoolRemove(pool, Head(txs)), Tail(txs))

----------------------------------------------------------------------------
\* Chain loader (loader.rs) and notifications.

\* self.request_history()
RequestHistory(w) == [w EXCEPT !.out.request_history = @ + 1]
\* self.request_history_from(pkey)
RequestHistoryFrom(w, pk) == [w EXCEPT !.out.request_history_from = Append(@, pk)]
\* self.send_blocks(pkey, height): the local blocks from height up to the tip.
SendBlocks(w, pk, h) ==
    [w EXCEPT !.out.send_blocks = Append(@, [to |-> pk, from |-> h, upto |-> Height(w)])]

\* ch.unbounded_send(msg): fails when the receiver is gone.
UnboundedSend(ch, msg) == [ch EXCEPT !.received = Append(@, msg)]

\* The fan-out that sends to every subscriber and keeps them all.
FanOutKeepsClosed(subscribers, msg) ==
    [i \in 1..Len(subscribers) |-> UnboundedSend(subscribers[i], msg)]

\* subscribers.retain(|ch| ch.unbounded_send(msg.clone()).is_ok())
FanOut(subscribers, msg) ==
    LET kept == SelectSeq(subscribers, LAMBDA ch : ch.open)
    IN [i \in 1..Len(kept) |-> UnboundedSend(kept[i], msg)]

\* OutputsChanged {epoch, inputs, outputs}
OutputsChanged(w) == [type |-> "OutputsChanged", epoch |-> w.epoch]
\* BlockAdded {height, hash, epoch, ..}
BlockAdded(w, h, hash) == [type |-> "BlockAdded", height |-> h, hash |-> hash, epoch |-> w.epoch]
\* EpochChanged {epoch, validators, facilitator}
EpochChanged(w) == [type |-> "EpochChanged", epoch |-> w.epoch, validators |-> w.validators]

\* on_outputs_changed fan-out
NotifyOutputsChanged(w) ==
    [w EXCEPT !.out.outputs_changed = @ + 1,
              !.on_outputs_changed = FanOut(@, OutputsChanged(w))]
\* The on_block_added fan-out done twice.
NotifyBlockAddedTwice(w, h, hash) ==
    [w EXCEPT !.out.block_added = Append(Append(@, [height |-> h, hash |-> hash]),
                                         [height |-> h, hash |-> hash]),
              !.on_block_added = FanOut(FanOut(@, BlockAdded(w, h, hash)),
                                        BlockAdded(w, h, hash))]

\* on_block_added fan-out
NotifyBlockAdded(w, h, hash) ==
    [w EXCEPT !.out.block_added = Append(@, [height |-> h, hash |-> hash]),
              !.on_block_added = FanOut(@, BlockAdded(w, h, hash))]
\* on_epoch_changed fan-out
NotifyEpochChanged(w) ==
    [w EXCEPT !.out.epoch_changed = @ + 1,
              !.on_epoch_changed = FanOut(@, EpochChanged(w))]

----------------------------------------------------------------------------
\* Role state.

\* The role state: the variant, whether each timer is armed; for a micro
\* block validator the votes held by the view-change collector and the
\* buffered consensus messages; for a macro block validator the consensus
\* engine: its round, should_commit(), the proposal and the two tallies.
NoBlock == MacroBlock(-1, 0, NullHash, "", "", 0, {})
Role(kind) ==
    [kind |-> kind, propose_timer |-> FALSE, view_change_timer |-> FALSE,
     round |-> 0, should_commit |-> FALSE, proposal |-> NoBlock,
     prevotes |-> {}, precommits |-> {},
     future_consensus_messages |-> <<>>, collector |-> {}]

IsMicroRole(v) == v.kind \in {"MicroBlockAuditor", "MicroBlockValidator"}

\* NodeService::on_micro_block_leader_changed
OnMicroBlockLeaderChanged(w) ==
    IF w.validation.kind # "MicroBlockValidator" THEN Ret(w, "Panic", NoErr)
    ELSE IF Leader(w) = SelfKey
         THEN Ret([w EXCEPT !.validation.propose_timer = TRUE], "Ok", NoErr)
         ELSE Ret([w EXCEPT !.validation.view_change_timer = TRUE,
                            !.last_block_clock = 0], "Ok", NoErr)

\* consensus.is_leader(): the leader of the consensus round
ConsensusIsLeader(w) == SelectLeader(w, w.validation.round) = SelfKey

\* The stake-weighted supermajority rule, every validator holding one slot.
Supermajority(voters, vals) == 3 * Cardinality(voters \cap vals) >= 2 * Cardinality(vals)

\* ConsensusMessage {round, height, request_hash, body, pkey, sig}; body is
\* Proposal {request}, Prevote or Precommit; sig_ok: the signature verifies.
ConsensusMessage(kind, round, height, request_hash, block, pkey, sig_ok) ==
    [kind |-> kind, round |-> round, height |-> height, request_hash |-> request_hash,
     block |-> block, pkey |-> pkey, sig_ok |-> sig_ok]

\* NodeService::create_macro_block(chain, view_change, ...)
CreateMacroBlock(w, round) ==
    MacroBlock(Height(w), round, LastBlockHash(w), SelfKey, "x", 0, w.validators)

\* The engine after a message: with the proposal known and a supermajority of
\* prevotes it precommits itself; with a supermajority of precommits it
\* enters Commit.
ConsensusProgress(w) ==
    LET v == w.validation
        known == v.proposal # NoBlock
        w1 == IF known /\ Supermajority(v.prevotes, w.validators) /\ SelfKey \notin v.precommits
              THEN [w EXCEPT !.validation.precommits = @ \cup {SelfKey},
                             !.out.consensus = Append(@, "Precommit")]
              ELSE w
    IN IF known /\ Supermajority(w1.validation.precommits, w.validators)
       THEN [w1 EXCEPT !.validation.should_commit = TRUE]
       ELSE w1

\* consensus.propose(f): store the request, queue the Proposal, prevote.
ConsensusPropose(w, block) ==
    ConsensusProgress([w EXCEPT !.validation.proposal = block,
                                !.validation.prevotes = @ \cup {SelfKey},
                                !.out.consensus = @ \o <<"Proposal", "Prevote">>])

\* consensus.feed_message(msg)
FeedMessage(w, msg) ==
    LET v == w.validation IN
    IF msg.height # Height(w) \/ msg.pkey \notin w.validators
    THEN Ret(w, "Error", Err("ConsensusError", "InvalidMessage"))
    ELSE IF msg.round < v.round THEN Ret(w, "Ok", NoErr)
    ELSE IF msg.kind = "Proposal"
    THEN IF msg.pkey # SelectLeader(w, v.round)
         THEN Ret(w, "Error", Err("ConsensusError", "ProposalFromNonLeader"))
         ELSE IF v.proposal # NoBlock THEN Ret(w, "Ok", NoErr)
         ELSE Ret(ConsensusProgress(
                     [w EXCEPT !.validation.proposal = msg.block,
                               !.validation.prevotes = @ \cup {SelfKey},
                               !.out.consensus = Append(@, "Prevote")]), "Ok", NoErr)
    ELSE IF msg.kind = "Prevote"
    THEN Ret(ConsensusProgress([w EXCEPT !.validation.prevotes = @ \cup {msg.pkey}]),
             "Ok", NoErr)
    ELSE Ret(ConsensusProgress([w EXCEPT !.validation.precommits = @ \cup {msg.pkey}]),
             "Ok", NoErr)

\* consensus.next_round(): the next round with its tallies reset.
NextRound(w) ==
    [w EXCEPT !.validation.round = @ + 1, !.validation.proposal = NoBlock,
              !.validation.prevotes = {}, !.validation.precommits = {},
              !.validation.should_commit = FALSE]

\* NodeService::propose_macro_block
ProposeMacroBlock(w) ==
    IF w.validation.kind # "MacroBlockValidator" THEN Ret(w, "Panic", NoErr)
    ELSE IF Leader(w) # SelfKey \/ ChainBlocksInEpoch(w) # BlocksInEpoch
    THEN Ret(w, "Panic", NoErr)
    ELSE IF ~w.net_ok
    THEN Ret([ConsensusPropose(w, CreateMacroBlock(w, w.validation.round))
                 EXCEPT !.out.consensus = w.out.consensus], "Error", NetworkError)
    ELSE Ret(ConsensusPropose(w, CreateMacroBlock(w, w.validation.round)), "Ok", NoErr)

\* NodeService::on_macro_block_leader_changed
OnMacroBlockLeaderChanged(w) ==
    IF w.validation.kind # "MacroBlockValidator" THEN Ret(w, "Panic", NoErr)
    ELSE IF ConsensusIsLeader(w) THEN ProposeMacroBlock(w)
    ELSE Ret([w EXCEPT !.validation.view_change_timer = TRUE,
                       !.last_block_clock = 0], "Ok", NoErr)

RECURSIVE HandleConsensusMessage(_, _)
\* update_validation_status, lines 1178-1189: flush pending messages; an
\* error of a replayed message is logged and the next one is handled.
RECURSIVE FlushPendingMessages(_, _)
FlushPendingMessages(w, msgs) ==
    IF msgs = <<>> THEN Ret(w, "Ok", NoErr)
    ELSE LET next(r) == IF r.result = "Panic" THEN r
                        ELSE FlushPendingMessages(r.w, Tail(msgs))
         IN next(HandleConsensusMessage(w, Head(msgs)))

\* std::mem::replace(&mut self.validation, ..), lines 1128-1149 and 1153-1176:
\* the role anew, no timer armed.
NewRole(w, kind) == [w EXCEPT !.validation = Role(kind), !.last_block_clock = 0]

\* update_validation_status with the epoch test off by one (<= for <).
UpdateValidationStatusLate(w) ==
    IF ChainBlocksInEpoch(w) <= BlocksInEpoch
    THEN IF ~IsValidator(w, SelfKey)
         THEN Ret(NewRole(w, "MicroBlockAuditor"), "Ok", NoErr)
         ELSE OnMicroBlockLeaderChanged(NewRole(w, "MicroBlockValidator"))
    ELSE IF ~IsValidator(w, SelfKey)
         THEN Ret(NewRole(w, "MacroBlockAuditor"), "Ok", NoErr)
         ELSE
         LET prev == w.validation
             leader_changed(f) ==
                 IF f.result = "Panic" THEN f ELSE OnMacroBlockLeaderChanged(f.w)
         IN leader_changed(FlushPendingMessages(
                               NewRole(w, "MacroBlockValidator"),
                               IF prev.kind = "MicroBlockValidator"
                               THEN prev.future_consensus_messages ELSE <<>>))

\* NodeService::update_validation_status
UpdateValidationStatus(w) ==
    IF ChainBlocksInEpoch(w) < BlocksInEpoch
    THEN IF ~IsValidator(w, SelfKey)
         THEN Ret(NewRole(w, "MicroBlockAuditor"), "Ok", NoErr)
         ELSE OnMicroBlockLeaderChanged(NewRole(w, "MicroBlockValidator"))
    ELSE IF ~IsValidator(w, SelfKey)
         THEN Ret(NewRole(w, "MacroBlockAuditor"), "Ok", NoErr)
         ELSE
         LET prev == w.validation
             leader_changed(f) ==
                 IF f.result = "Panic" THEN f ELSE OnMacroBlockLeaderChanged(f.w)
         IN leader_changed(FlushPendingMessages(
                               NewRole(w, "MacroBlockValidator"),
                               IF prev.kind = "MicroBlockValidator"
                               THEN prev.future_consensus_messages ELSE <<>>))

----------------------------------------------------------------------------
\* Fork resolution.

RECURSIVE Truncate(_, _)
\* The truncation loop stopping one block early (height + 1 for height).
TruncateKeepsOne(w, height) ==
    IF Height(w) > height + 1
    THEN IF PopRefused(w)
         THEN Ret(w, "Error", Err("BlockchainError", "PopRefused"))
         ELSE Truncate(NotifyOutputsChanged(SetLastBlockClock(PopMicroBlock(w))), height)
    ELSE Ret(w, "Ok", NoErr)

\* try_rollback, lines 608-620: truncate the blockchain down to height.
Truncate(w, height) ==
    IF Height(w) > height
    THEN IF PopRefused(w)
         THEN Ret(w, "Error", Err("BlockchainError", "PopRefused"))
         ELSE Truncate(NotifyOutputsChanged(SetLastBlockClock(PopMicroBlock(w))), height)
    ELSE Ret(w, "Ok", NoErr)

\* try_rollback validating the proof only after it has truncated the chain.
TryRollbackTruncatesFirst(w, pkey, sealed) ==
    LET height == sealed.chain.height IN
    IF height <= w.last_macro_block_height THEN Ret(w, "Canceled", NoErr)
    ELSE IF height > Height(w) THEN Ret(w, "Canceled", NoErr)
    ELSE IF height < Height(w) /\ BlockByHeight(w, height).kind # "micro"
    THEN Ret(w, "Panic", NoErr)
    ELSE
    LET local == IF height < Height(w)
                 THEN LET b == BlockByHeight(w, height)
                      IN ChainInfo(b.height, b.previous, b.view_change)
                 ELSE ChainInfoFromBlockchain(w)
    IN
    IF sealed.chain.view_change < local.view_change THEN Ret(w, "Canceled", NoErr)
    ELSE IF sealed.chain.last_block # local.last_block
    THEN Ret(RequestHistoryFrom(w, pkey), "Canceled", NoErr)
    ELSE
    LET t == Truncate([w EXCEPT !.out.forks = @ + 1], height) IN
    IF t.result # "Ok" THEN t
    ELSE IF ~ProofValidate(sealed.proof, sealed.chain)
    THEN Ret(t.w, "Error", Err("BlockError", "InvalidViewChangeProof"))
    ELSE Ret(SetViewChange(t.w, sealed.chain.view_change + 1, sealed.proof), "Ok", NoErr)

\* NodeService::try_rollback(pkey, proof), proof = SealedViewChangeProof {chain, proof}
TryRollback(w, pkey, sealed) ==
    LET height == sealed.chain.height IN
    IF height <= w.last_macro_block_height THEN Ret(w, "Canceled", NoErr)
    ELSE IF height > Height(w) THEN Ret(w, "Canceled", NoErr)
    ELSE IF height < Height(w) /\ BlockByHeight(w, height).kind # "micro"
    THEN Ret(w, "Panic", NoErr)
    ELSE
    LET local == IF height < Height(w)
                 THEN LET b == BlockByHeight(w, height)
                      IN ChainInfo(b.height, b.previous, b.view_change)
                 ELSE ChainInfoFromBlockchain(w)
        local_view_change == local.view_change
        remote_view_change == sealed.chain.view_change
    IN
    IF remote_view_change < local_view_change THEN Ret(w, "Canceled", NoErr)
    ELSE IF sealed.chain.last_block # local.last_block
    THEN Ret(RequestHistoryFrom(w, pkey), "Canceled", NoErr)
    ELSE IF ~ProofValidate(sealed.proof, sealed.chain)
    THEN Ret(w, "Error", Err("BlockError", "InvalidViewChangeProof"))
    ELSE
    LET t == Truncate([w EXCEPT !.out.forks = @ + 1], height) IN
    IF t.result # "Ok" THEN t
    ELSE Ret(SetViewChange(t.w, sealed.chain.view_change + 1, sealed.proof), "Ok", NoErr)

\* The same-view branch with the hash comparison inverted.
SameViewChangeInverted(w, local_hash, remote_hash) ==
    IF local_hash # remote_hash
    THEN Ret(w, "Canceled", NoErr)
    ELSE Ret([w EXCEPT !.out.cheats = @ + 1], "Canceled", NoErr)

\* resolve_fork, lines 459-481: a remote block with the view of the local one.
SameViewChange(w, local_hash, remote_hash) ==
    IF local_hash = local_hash
    THEN Ret(w, "Canceled", NoErr)
    ELSE Ret([w EXCEPT !.out.cheats = @ + 1], "Canceled", NoErr)

\* The lower-view branch sending only the tip instead of the blocks from height.
LowerViewChangeFromTip(w, leader, height) ==
    Ret(SendBlocks(w, leader, Height(w)), "Canceled", NoErr)

\* resolve_fork, lines 482-490: a remote block with a lower view.
LowerViewChange(w, leader, height) ==
    Ret(SendBlocks(w, leader, height), "Canceled", NoErr)

\* NodeService::resolve_fork(remote)
ResolveFork(w, remote) ==
    LET height == remote.height
        remote_hash == Hash(remote)
    IN
    IF ~(height < Height(w) /\ height > 0 /\ height > w.last_macro_block_height)
    THEN Ret(w, "Panic", NoErr)
    ELSE IF remote.kind # "micro"
    THEN Ret(w, "Error", Err("NodeBlockError", "ExpectedMicroBlock"))
    ELSE
    LET remote_view_change == remote.view_change
        local == BlockByHeight(w, height)
        local_hash == Hash(local)
    IN
    IF local.kind # "micro" THEN Ret(w, "Panic", NoErr)
    ELSE
    LET previous_block == BlockByHeight(w, height - 1)
        leader == SelectLeaderFrom(w.validators, Random(previous_block), remote_view_change)
    IN
    IF leader # remote.pkey THEN Ret(w, "Error", Err("BlockError", "DifferentPublicKey"))
    ELSE IF remote_view_change = local.view_change
    THEN SameViewChange(w, local_hash, remote_hash)
    ELSE IF remote_view_change <= local.view_change
    THEN LowerViewChange(w, leader, height)
    ELSE IF ~remote.proof.present
    THEN Ret(w, "Error", Err("BlockError", "NoProofWasFound"))
    ELSE TryRollback(w, remote.pkey,
                     [chain |-> ChainInfoFromBlock(remote), proof |-> remote.proof])

----------------------------------------------------------------------------
\* Block application.

\* The sealed proof with the chain's view left as it is.
SealedViewChangeProofCurrentView(w) ==
    [chain |-> ChainInfo(Height(w), LastBlockHash(w), w.view_change),
     proof |-> w.view_change_proof]

\* apply_new_block, lines 863-877: the stored proof sealed with the chain
\* info it was made for, the view before the change.
SealedViewChangeProof(w) ==
    [chain |-> ChainInfo(Height(w), LastBlockHash(w), w.view_change - 1),
     proof |-> w.view_change_proof]

\* The fork check made on the round leader only.
NetworkForkOnLeader(w, hash) ==
    /\ w.validation.kind = "MacroBlockValidator"
    /\ ConsensusIsLeader(w) /\ w.validation.should_commit
    /\ hash # Hash(w.validation.proposal)

\* apply_new_block, lines 776-788: the engine has committed to a proposal and
\* the macro block to apply is another one.
NetworkFork(w, hash) ==
    /\ w.validation.kind = "MacroBlockValidator"
    /\ w.validation.should_commit
    /\ hash # Hash(w.validation.proposal)

\* NodeService::apply_new_block(block)
ApplyNewBlock(w, block) ==
    LET hash == Hash(block)
        height == block.height
        \* lines 905-927: notify BlockAdded, recompute the role
        finish(w1) == UpdateValidationStatus(
                          NotifyBlockAdded(SetLastBlockClock(w1), height, hash))
    IN
    IF block.kind = "macro"
    THEN IF NetworkFork(w, hash)
         THEN Ret(w, "Panic", NoErr)
         ELSE IF w.validation.kind \notin {"MacroBlockAuditor", "MacroBlockValidator"}
         THEN Ret(w, "Error", Err("NodeBlockError", "ExpectedMacroBlock"))
         ELSE IF w.epoch > 0 /\ block.block_reward # 0
         THEN Ret(w, "Error", Err("NodeBlockError", "InvalidBlockReward"))
         ELSE IF MacroBlockError(w, block) # ""
         THEN Ret(w, "Error", Err("BlockchainError", MacroBlockError(w, block)))
         ELSE finish(NotifyEpochChanged(PushMacroBlock(w, block)))
    ELSE IF ~IsMicroRole(w.validation)
         THEN Ret(w, "Error", Err("NodeBlockError", "ExpectedMicroBlock"))
         ELSE IF w.epoch > 0 /\ block.block_reward # cfg_block_reward
         THEN Ret(w, "Error", Err("NodeBlockError", "InvalidBlockReward"))
         ELSE IF MicroBlockError(w, block) = "InvalidViewChange"
         THEN IF ~w.view_change_proof.present
              THEN Ret(w, "Panic", NoErr)
              ELSE IF ~w.net_ok THEN Ret(w, "Error", NetworkError)
              ELSE Ret([w EXCEPT !.out.sent_proofs =
                           Append(@, [to |-> block.pkey,
                                      chain |-> SealedViewChangeProof(w).chain,
                                      proof |-> SealedViewChangeProof(w).proof])],
                       "Error", Err("BlockchainError", "InvalidViewChange"))
         ELSE IF MicroBlockError(w, block) # ""
         THEN Ret(w, "Error", Err("BlockchainError", MicroBlockError(w, block)))
         ELSE finish(NotifyOutputsChanged(
                         [PushMicroBlock(w, block) EXCEPT
                             !.mempool = MempoolPrune(@, block.transactions)]))

\* handle_sealed_block, lines 722-743: process pending blocks.
RECURSIVE ProcessPending(_)
ProcessPending(w) ==
    IF Height(w) \notin DOMAIN w.future_blocks THEN Ret(w, "Ok", NoErr)
    ELSE
    LET block == w.future_blocks[Height(w)]
        w1 == [w EXCEPT !.future_blocks =
                  [h \in (DOMAIN w.future_blocks) \ {Height(w)} |-> w.future_blocks[h]]]
        applied(a) ==
            IF a.result = "Panic" THEN a
            ELSE IF a.result = "Error"
            THEN IF a.err.type = "BlockError" /\ a.err.name = "InvalidPreviousHash"
                 THEN Ret(RequestHistoryFrom(a.w, SelectLeader(a.w, block.view_change)),
                          "Break", a.err)
                 ELSE Ret(a.w, "Break", a.err)
            ELSE ProcessPending(a.w)
    IN applied(ApplyNewBlock(w1, block))

\* The buffering step filing the block under the chain's height.
BufferAndDrainAtTip(w, block) ==
    LET w1 == [w EXCEPT !.future_blocks =
                  [h \in (DOMAIN w.future_blocks) \cup {Height(w)} |->
                      IF h = Height(w) THEN block ELSE w.future_blocks[h]]]
        drained(p) ==
            IF p.result = "Panic" THEN p
            ELSE IF DOMAIN p.w.future_blocks # {}
            THEN Ret(RequestHistory(p.w), "Ok", p.err)
            ELSE Ret(p.w, "Ok", p.err)
    IN drained(ProcessPending(w1))

\* The buffering step asking for history whatever the buffer holds.
BufferAndDrainAlwaysAsks(w, block) ==
    LET w1 == [w EXCEPT !.future_blocks =
                  [h \in (DOMAIN w.future_blocks) \cup {block.height} |->
                      IF h = block.height THEN block ELSE w.future_blocks[h]]]
        p == ProcessPending(w1)
    IN
    IF p.result = "Panic" THEN p
    ELSE Ret(RequestHistory(p.w), "Ok", p.err)

\* handle_sealed_block, lines 719-760: buffer the block, drain, ask for the rest.
\* The handler returns Ok(()); err is the apply error it logged, if any.
BufferAndDrain(w, block) ==
    LET w1 == [w EXCEPT !.future_blocks =
                  [h \in (DOMAIN w.future_blocks) \cup {block.height} |->
                      IF h = block.height THEN block ELSE w.future_blocks[h]]]
        drained(p) ==
            IF p.result = "Panic" THEN p
            ELSE IF DOMAIN p.w.future_blocks # {}
            THEN Ret(RequestHistory(p.w), "Ok", p.err)
            ELSE Ret(p.w, "Ok", p.err)
    IN drained(ProcessPending(w1))

\* NodeService::handle_sealed_block(block); sig_ok: the leader signature of a
\* micro block, the multi-signature of a macro block, verifies.
HandleSealedBlock(w, block, sig_ok) ==
    LET block_height == block.height IN
    IF block_height <= w.last_macro_block_height THEN Ret(w, "Ok", NoErr)
    ELSE IF block_height > w.last_macro_block_height + BlocksInEpoch
    THEN Ret(RequestHistory(w), "Ok", NoErr)
    ELSE IF block.kind = "macro" /\ ~sig_ok
    THEN Ret(w, "Error", Err("BlockError", "InvalidBlockSignature"))
    ELSE IF block.kind = "micro" /\ ~sig_ok
    THEN Ret(w, "Error", Err("BlockError", "InvalidLeaderSignature"))
    ELSE IF block.kind = "micro" /\ ~IsValidator(w, block.pkey)
    THEN Ret(w, "Error", Err("BlockError", "LeaderIsNotValidator"))
    ELSE IF block_height < Height(w)
    THEN LET f == ResolveFork(w, block) IN
         IF f.result = "Ok"
         THEN IF block_height # Height(f.w) THEN Ret(f.w, "Panic", NoErr)
              ELSE BufferAndDrain(f.w, block)
         ELSE IF f.result = "Canceled"
         THEN IF ~(block_height < Height(f.w)) THEN Ret(f.w, "Panic", NoErr)
              ELSE Ret(f.w, "Ok", NoErr)
         ELSE f
    ELSE BufferAndDrain(w, block)

\* NodeService::handle_view_change_direct(proof, pkey)
HandleViewChangeDirect(w, sealed, pkey) ==
    LET r == TryRollback(w, pkey, sealed) IN
    IF r.result = "Canceled" THEN Ret(r.w, "Error", Err("ForkError", "Canceled")) ELSE r

\* handle_pop_block with the boundary test off by one (> 0 for > 1).
HandlePopBlockAtBoundary(w) ==
    IF ChainBlocksInEpoch(w) > 0
    THEN IF PopRefused(w)
         THEN Ret(w, "Error", Err("BlockchainError", "PopRefused"))
         ELSE UpdateValidationStatus(NotifyOutputsChanged(
                                         SetLastBlockClock(PopMicroBlock(w))))
    ELSE Ret(w, "Ok", NoErr)

\* NodeService::handle_pop_block
HandlePopBlock(w) ==
    IF ChainBlocksInEpoch(w) > 1
    THEN IF PopRefused(w)
         THEN Ret(w, "Error", Err("BlockchainError", "PopRefused"))
         ELSE UpdateValidationStatus(NotifyOutputsChanged(
                                         SetLastBlockClock(PopMicroBlock(w))))
    ELSE Ret(w, "Ok", NoErr)

\* NodeService::create_micro_block: the block carries what the mempool yields.
CreateMicroBlock(w) ==
    IF w.validation.kind # "MicroBlockValidator" THEN Ret(w, "Panic", NoErr)
    ELSE IF Leader(w) # SelfKey \/ ~(ChainBlocksInEpoch(w) < BlocksInEpoch)
    THEN Ret(w, "Panic", NoErr)
    ELSE IF ~w.net_ok THEN Ret(w, "Panic", NoErr)
    ELSE
    LET block == [MicroBlock(Height(w), w.view_change, LastBlockHash(w), SelfKey, "x",
                             cfg_block_reward, w.view_change_proof)
                     EXCEPT !.transactions = MempoolCreateBlock(w.mempool)]
    IN ApplyNewBlock([w EXCEPT !.out.sealed = Append(@, Hash(block))], block)

\* NodeService::init
NodeInit(w) ==
    LET u == UpdateValidationStatus(w) IN
    IF u.result # "Ok" THEN u ELSE Ret(RequestHistory(u.w), "Ok", NoErr)

\* ViewChangeMessage {chain, pkey, sig}; sig_ok: the signature verifies.
ViewChangeMessage(chain, pkey, sig_ok) == [chain |-> chain, pkey |-> pkey, sig_ok |-> sig_ok]

\* view_change_collector.handle_message(chain, msg): the collector after the
\* message, and the sealed proof once a supermajority has voted.
CollectorHandleMessage(w, msg) ==
    IF msg.chain # ChainInfoFromBlockchain(w)
    THEN [w |-> w, proof |-> NoProof, err |-> NoErr]
    ELSE IF msg.pkey \notin w.validators \/ ~msg.sig_ok
    THEN [w |-> w, proof |-> NoProof, err |-> Err("ConsensusError", "InvalidMessageSignature")]
    ELSE LET votes == w.validation.collector \cup {msg.pkey} IN
         IF Supermajority(votes, w.validators)
         THEN [w |-> [w EXCEPT !.validation.collector = {}], proof |-> Proof(msg.chain),
               err |-> NoErr]
         ELSE [w |-> [w EXCEPT !.validation.collector = votes], proof |-> NoProof,
               err |-> NoErr]

\* handle_view_change_message recording the proof without reselecting the leader.
HandleViewChangeMessageKeepsLeader(w, msg) ==
    IF w.validation.kind # "MicroBlockValidator" THEN Ret(w, "Ok", NoErr)
    ELSE
    LET c == CollectorHandleMessage(w, msg) IN
    IF c.err # NoErr THEN Ret(c.w, "Error", c.err)
    ELSE IF c.proof # NoProof
    THEN Ret(SetViewChange(c.w, c.w.view_change + 1, c.proof), "Ok", NoErr)
    ELSE Ret(c.w, "Ok", NoErr)

\* NodeService::handle_view_change_message
HandleViewChangeMessage(w, msg) ==
    IF w.validation.kind # "MicroBlockValidator" THEN Ret(w, "Ok", NoErr)
    ELSE
    LET c == CollectorHandleMessage(w, msg) IN
    IF c.err # NoErr THEN Ret(c.w, "Error", c.err)
    ELSE IF c.proof # NoProof
    THEN LET l == OnMicroBlockLeaderChanged(SetViewChange(c.w, c.w.view_change + 1, c.proof))
         IN Ret(l.w, "Ok", NoErr)
    ELSE Ret(c.w, "Ok", NoErr)

\* NodeService::handle_micro_block_viewchange_timer: assert that clock::now()
\* is a timeout or more after last_block_clock (lines 1395-1396), re-arm the
\* timer, publish the vote, feed it to the own collector, ask for history.
HandleMicroBlockViewchangeTimer(w) ==
    IF w.now - w.last_block_clock < 1 THEN Ret(w, "Panic", NoErr)
    ELSE IF w.validation.kind # "MicroBlockValidator" THEN Ret(w, "Panic", NoErr)
    ELSE
    LET msg == ViewChangeMessage(ChainInfoFromBlockchain(w), SelfKey, TRUE)
        armed == [w EXCEPT !.validation.view_change_timer = TRUE, !.last_block_clock = 0]
        h == HandleViewChangeMessage([armed EXCEPT !.out.votes = Append(@, msg.chain)], msg)
    IN IF ~w.net_ok
       THEN Ret(armed, "Error", NetworkError)
       ELSE IF h.result # "Ok" THEN h ELSE Ret(RequestHistory(h.w), "Ok", NoErr)

\* NodeService::commit_proposed_block(block, multisig, multisigmap): seal the
\* block with the signers, publish and apply it; commit must never fail.
CommitProposedBlock(w, block, signers) ==
    IF ~w.net_ok THEN Ret(w, "Panic", NoErr)
    ELSE
    LET expect(a) == IF a.result = "Ok" THEN a ELSE Ret(a.w, "Panic", NoErr)
    IN expect(ApplyNewBlock([w EXCEPT !.out.sealed = Append(@, Hash(block)),
                                      !.out.multisig = Append(@, signers)], block))

\* validate_proposed_macro_block(cfg, chain, round, request_hash, block)
ValidateProposedMacroBlock(w, round, request_hash, block) ==
    /\ request_hash = Hash(block)
    /\ block.kind = "macro"
    /\ block.height = Height(w)
    /\ block.previous = LastBlockHash(w)
    /\ block.view_change = round
    /\ block.block_reward = 0

\* NodeService::validate_consensus_message and ConsensusMessage::validate
ValidateConsensusMessage(w, msg) ==
    IF ~msg.sig_ok THEN Err("ConsensusError", "InvalidMessageSignature")
    ELSE IF msg.kind = "Proposal"
            /\ ~ValidateProposedMacroBlock(w, msg.round, msg.request_hash, msg.block)
    THEN Err("ConsensusError", "InvalidPropose")
    ELSE NoErr

\* merge_multi_signature: the bits of both sides.
MergeMultiSignature(signers, other) == signers \cup other

\* handle_consensus_message committing on every validator, leader or not.
HandleConsensusMessageAllCommit(w, msg) ==
    IF w.validation.kind \in {"MicroBlockAuditor", "MacroBlockAuditor"}
    THEN Ret(w, "Ok", NoErr)
    ELSE IF w.validation.kind = "MicroBlockValidator"
    THEN Ret([w EXCEPT !.validation.future_consensus_messages = Append(@, msg)], "Ok", NoErr)
    ELSE IF ValidateConsensusMessage(w, msg) # NoErr
    THEN Ret(w, "Error", ValidateConsensusMessage(w, msg))
    ELSE
    LET f == FeedMessage([w EXCEPT !.out.fed = Append(@, msg)], msg) IN
    IF f.result # "Ok" THEN f
    ELSE IF ~w.net_ok /\ f.w.out.consensus # w.out.consensus
    THEN Ret([f.w EXCEPT !.out.consensus = w.out.consensus], "Error", NetworkError)
    ELSE IF f.w.validation.should_commit
    THEN CommitProposedBlock(f.w, f.w.validation.proposal, f.w.validation.precommits)
    ELSE f

\* handle_consensus_message feeding the engine before it validates.
HandleConsensusMessageFeedsFirst(w, msg) ==
    IF w.validation.kind \in {"MicroBlockAuditor", "MacroBlockAuditor"}
    THEN Ret(w, "Ok", NoErr)
    ELSE IF w.validation.kind = "MicroBlockValidator"
    THEN Ret([w EXCEPT !.validation.future_consensus_messages = Append(@, msg)], "Ok", NoErr)
    ELSE
    LET f == FeedMessage([w EXCEPT !.out.fed = Append(@, msg)], msg) IN
    IF f.result # "Ok" THEN f
    ELSE IF ValidateConsensusMessage(w, msg) # NoErr
    THEN Ret(f.w, "Error", ValidateConsensusMessage(w, msg))
    ELSE IF ~w.net_ok /\ f.w.out.consensus # w.out.consensus
    THEN Ret([f.w EXCEPT !.out.consensus = w.out.consensus], "Error", NetworkError)
    ELSE IF ConsensusIsLeader(f.w) /\ f.w.validation.should_commit
    THEN CommitProposedBlock(f.w, f.w.validation.proposal, f.w.validation.precommits)
    ELSE f

\* NodeService::handle_consensus_message
HandleConsensusMessage(w, msg) ==
    IF w.validation.kind \in {"MicroBlockAuditor", "MacroBlockAuditor"}
    THEN Ret(w, "Ok", NoErr)
    ELSE IF w.validation.kind = "MicroBlockValidator"
    THEN Ret([w EXCEPT !.validation.future_consensus_messages = Append(@, msg)], "Ok", NoErr)
    ELSE IF ValidateConsensusMessage(w, msg) # NoErr
    THEN Ret(w, "Error", ValidateConsensusMessage(w, msg))
    ELSE
    LET f == FeedMessage([w EXCEPT !.out.fed = Append(@, msg)], msg) IN
    IF f.result # "Ok" THEN f
    ELSE IF ~w.net_ok /\ f.w.out.consensus # w.out.consensus
    THEN Ret([f.w EXCEPT !.out.consensus = w.out.consensus], "Error", NetworkError)
    ELSE IF ConsensusIsLeader(f.w) /\ f.w.validation.should_commit
    THEN CommitProposedBlock(f.w, f.w.validation.proposal, f.w.validation.precommits)
    ELSE f

\* handle_macro_block_viewchange_timer sealing the block with the collected
\* precommits alone, the leader's proposal signature left out.
HandleMacroBlockViewchangeTimerNoMerge(w) ==
    IF w.now - w.last_block_clock < 1 THEN Ret(w, "Panic", NoErr)
    ELSE IF w.validation.kind # "MacroBlockValidator" THEN Ret(w, "Panic", NoErr)
    ELSE IF w.validation.should_commit
    THEN IF ConsensusIsLeader(w) THEN Ret(w, "Panic", NoErr)
         ELSE CommitProposedBlock([w EXCEPT !.out.autocommit = @ + 1,
                                            !.last_block_clock = 0], w.validation.proposal,
                                  w.validation.precommits)
    ELSE
    LET l == OnMacroBlockLeaderChanged(NextRound([w EXCEPT !.last_block_clock = 0])) IN
    IF l.result # "Ok" THEN l ELSE Ret(RequestHistory(l.w), "Ok", NoErr)

\* NodeService::handle_macro_block_viewchange_timer.  Line 1305 asserts that
\* clock::now() is a timeout or more after last_block_clock; the timer that
\* fired is gone, so the clock counts as 0 from there on.
HandleMacroBlockViewchangeTimer(w) ==
    IF w.now - w.last_block_clock < 1 THEN Ret(w, "Panic", NoErr)
    ELSE IF w.validation.kind # "MacroBlockValidator" THEN Ret(w, "Panic", NoErr)
    ELSE IF w.validation.should_commit
    THEN IF ConsensusIsLeader(w) THEN Ret(w, "Panic", NoErr)
         ELSE CommitProposedBlock([w EXCEPT !.out.autocommit = @ + 1,
                                            !.last_block_clock = 0], w.validation.proposal,
                                  MergeMultiSignature(w.validation.precommits,
                                                      {w.validation.proposal.pkey}))
    ELSE
    LET l == OnMacroBlockLeaderChanged(NextRound([w EXCEPT !.last_block_clock = 0])) IN
    IF l.result # "Ok" THEN l ELSE Ret(RequestHistory(l.w), "Ok", NoErr)

\* poll_timers with the handler run on the state in which the timer is still
\* armed.
PollTimersKeepsTimer(w, ready) ==
    IF w.validation.kind = "MicroBlockValidator"
    THEN IF w.validation.propose_timer
         THEN IF ready THEN CreateMicroBlock(w) ELSE Ret(w, "Ok", NoErr)
         ELSE IF w.validation.view_change_timer
         THEN IF ready THEN HandleMicroBlockViewchangeTimer(w) ELSE Ret(w, "Ok", NoErr)
         ELSE Ret(w, "Ok", NoErr)
    ELSE IF w.validation.kind = "MacroBlockValidator" /\ w.validation.view_change_timer
    THEN IF ready THEN HandleMacroBlockViewchangeTimer(w) ELSE Ret(w, "Ok", NoErr)
    ELSE Ret(w, "Ok", NoErr)

\* NodeService::poll_timers; ready: the timer polled has expired.
PollTimers(w, ready) ==
    IF w.validation.kind = "MicroBlockValidator"
    THEN IF w.validation.propose_timer
         THEN LET w1 == [w EXCEPT !.validation.propose_timer = FALSE]
              IN IF ready THEN CreateMicroBlock(w1) ELSE Ret(w1, "Ok", NoErr)
         ELSE IF w.validation.view_change_timer
         THEN LET w1 == [w EXCEPT !.validation.view_change_timer = FALSE]
              IN IF ready THEN HandleMicroBlockViewchangeTimer(w1)
                 ELSE Ret([w1 EXCEPT !.last_block_clock = 0], "Ok", NoErr)
         ELSE Ret(w, "Ok", NoErr)
    ELSE IF w.validation.kind = "MacroBlockValidator" /\ w.validation.view_change_timer
    THEN LET w1 == [w EXCEPT !.validation.view_change_timer = FALSE]
         IN IF ready THEN HandleMacroBlockViewchangeTimer(w1)
            ELSE Ret([w1 EXCEPT !.last_block_clock = 0], "Ok", NoErr)
    ELSE Ret(w, "Ok", NoErr)

\* NodeService::poll once the event stream has nothing more to hand over:
\* the timers are polled (an error is logged), then events.poll() yields
\* item, NotReady while a sender lives and None once every sender is gone.
\* The None arm is unreachable!(), and no arm returns Ready.
Poll(w, ready, item) ==
    LET events(t) == IF t.result = "Panic" THEN t
                     ELSE IF item = "None" THEN Ret(t.w, "Panic", NoErr)
                     ELSE Ret(t.w, "NotReady", NoErr)
    IN events(PollTimers(w, ready))

----------------------------------------------------------------------------
\* The inputs of the events.

\* The well-formed block at height h: the local block below the tip, above it
\* what honest leaders build on the local chain.
RECURSIVE HonestAt(_, _)
HonestAt(w, h) ==
    IF h < Height(w) THEN BlockByHeight(w, h)
    ELSE IF h = Height(w)
    THEN MicroBlock(h, w.view_change, LastBlockHash(w), Leader(w), "x", cfg_block_reward,
                    w.view_change_proof)
    ELSE LET p == HonestAt(w, h - 1)
         IN MicroBlock(h, 0, Hash(p), SelectLeaderFrom(w.validators, Random(p), 0), "x",
                       cfg_block_reward, NoProof)

CarriedProof(h, prev, v) == IF v > 0 THEN Proof(ChainInfo(h, prev, v - 1)) ELSE NoProof

EpochHeights(w) == (w.last_macro_block_height + 1)..(w.last_macro_block_height + BlocksInEpoch)

\* Micro blocks of the current epoch with a valid leader signature, built on
\* the well-formed block below them.  At the tip and below: the well-formed
\* blocks of every view and those that differ from one in one respect.  Above
\* the tip: the well-formed block and one built on a block this node lacks.
MicroInputs(w) ==
    UNION {
      LET p == HonestAt(w, h - 1)
          ldr(v) == SelectLeaderFrom(w.validators, Random(p), v)
          other(v) == CHOOSE k \in w.validators : k # ldr(v)
      IN
      IF h > Height(w)
      THEN { MicroBlock(h, 0, Hash(p), ldr(0), "x", cfg_block_reward, NoProof),
             MicroBlock(h, 0, ForeignHash, ldr(0), "x", cfg_block_reward, NoProof) }
      ELSE
      \* well-formed
      { MicroBlock(h, v, Hash(p), ldr(v), "x", cfg_block_reward, CarriedProof(h, Hash(p), v))
          : v \in 0..MaxView }
      \* another payload
      \cup { MicroBlock(h, 0, Hash(p), ldr(0), "y", cfg_block_reward, NoProof) }
      \* produced by a validator that is not the leader of the view
      \cup { MicroBlock(h, v, Hash(p), other(v), "x", cfg_block_reward,
                        CarriedProof(h, Hash(p), v)) : v \in 0..MaxView }
      \* wrong block reward
      \cup { MicroBlock(h, v, Hash(p), ldr(v), "x", 0, CarriedProof(h, Hash(p), v))
               : v \in 0..MaxView }
      \* a skipped view without a proof, or with a forged one
      \cup { MicroBlock(h, v, Hash(p), ldr(v), "x", cfg_block_reward, NoProof)
               : v \in 1..MaxView }
      \cup { MicroBlock(h, v, Hash(p), ldr(v), "x", cfg_block_reward, ForgedProof)
               : v \in 1..MaxView }
      \* built on a block this node does not have
      \cup { MicroBlock(h, v, ForeignHash, ldr(v), "x", cfg_block_reward,
                        CarriedProof(h, ForeignHash, v)) : v \in 0..MaxView }
      : h \in EpochHeights(w) }

\* Macro blocks of the current epoch with a valid multi-signature.
MacroInputs(w) ==
    UNION {
      LET p == HonestAt(w, h - 1)
          ldr == SelectLeaderFrom(w.validators, Random(p), 0)
      IN
      IF h = w.last_macro_block_height + BlocksInEpoch
      THEN { MacroBlock(h, 0, Hash(p), ldr, "x", 0, vals) : vals \in ValidatorSets }
           \cup { MacroBlock(h, 0, Hash(p), ldr, "x", cfg_block_reward, w.validators),
                  MacroBlock(h, 0, ForeignHash, ldr, "x", 0, w.validators) }
      ELSE { MacroBlock(h, 0, Hash(p), ldr, "x", 0, w.validators) }
      : h \in EpochHeights(w) }

\* What arrives on the sealed-block topic.
SealedBlockInputs(w) ==
    LET tip == Height(w)
        any(h) == MicroBlock(h, 0, ForeignHash, "B", "x", cfg_block_reward, NoProof)
    IN
    { [block |-> b, sig_ok |-> TRUE] : b \in MicroInputs(w) \cup MacroInputs(w) }
    \cup { [block |-> any(w.last_macro_block_height), sig_ok |-> TRUE],
           [block |-> any(w.last_macro_block_height + BlocksInEpoch + 1), sig_ok |-> TRUE],
           [block |-> any(tip), sig_ok |-> FALSE],
           [block |-> MacroBlock(tip, 0, LastBlockHash(w), "B", "x", 0, w.validators),
            sig_ok |-> FALSE] }
    \cup { [block |-> MicroBlock(tip, 0, LastBlockHash(w), k, "x", cfg_block_reward, NoProof),
            sig_ok |-> TRUE] : k \in Keys \ w.validators }

\* The previous-hash a view-change vote at height h is over.
PreviousAt(w, h) ==
    IF h = Height(w) THEN LastBlockHash(w)
    ELSE IF h >= w.last_macro_block_height /\ h < Height(w) THEN BlockByHeight(w, h).previous
    ELSE ForeignHash

\* What arrives on the direct view-change topic: sealed proofs.
ProofInputs(w) ==
    UNION { UNION {
        { [chain |-> ChainInfo(h, last, v), proof |-> Proof(ChainInfo(h, last, v))],
          [chain |-> ChainInfo(h, last, v), proof |-> ForgedProof] }
          : last \in {PreviousAt(w, h), ForeignHash} }
      : h \in w.last_macro_block_height..(Height(w) + 1), v \in 0..(MaxView - 1) }

----------------------------------------------------------------------------
\* The state machine.

Genesis == MacroBlock(0, 0, NullHash, "B", "x", 0, {})

NoOrphans == [h \in {} |-> Genesis]

Init ==
    /\ chain_blocks = <<Genesis>>
    /\ last_macro_block_height = 0
    /\ epoch \in {0, 1}
    /\ view_change = 0
    /\ view_change_proof = NoProof
    /\ validators \in ValidatorSets
    /\ validation = IF 1 < BlocksInEpoch THEN Role("MicroBlockAuditor")
                    ELSE Role("MacroBlockAuditor")
    /\ future_blocks = NoOrphans
    /\ initialized = FALSE
    /\ polled = FALSE
    /\ aborted = FALSE
    /\ on_block_added = <<>>
    /\ on_epoch_changed = <<>>
    /\ on_outputs_changed = <<>>
    /\ msig = NoCall
    /\ cmsg = NoCall
    /\ wallet = NoCall
    /\ mempool = <<>>
    /\ last_block_clock = 0

\* NodeService::handle_block_added
HandleBlockAdded(w, tx) ==
    Ret([w EXCEPT !.on_block_added = Append(@, tx)], "Ok", NoErr)

\* NodeService::handle_subscribe_epoch: the current epoch is sent to the new
\* subscriber first, a failure is ignored.
HandleSubscribeEpoch(w, tx) ==
    Ret([w EXCEPT !.on_epoch_changed =
                      Append(@, IF tx.open THEN UnboundedSend(tx, EpochChanged(w)) ELSE tx)],
        "Ok", NoErr)

\* NodeService::handle_subscribe_outputs
HandleSubscribeOutputs(w, tx) ==
    Ret([w EXCEPT !.on_outputs_changed = Append(@, tx)], "Ok", NoErr)

\* What stays of a subscriber list between two events: the channels; what
\* was sent has been taken by the receivers.
Kept(list) == [i \in 1..Len(list) |-> [tx |-> list[i].tx, open |-> list[i].open]]

\* The event loop commits what a handler leaves; a panic ends the driver.
Commit(r) ==
    /\ Cardinality(DOMAIN r.w.future_blocks) <= MaxOrphans
    /\ Height(r.w) <= MaxHeight
    /\ r.w.validation.round <= MaxView
    /\ r.w.view_change <= MaxView
    /\ Len(r.w.validation.future_consensus_messages) <= MaxMessages
    /\ Len(r.w.on_block_added) + Len(r.w.on_epoch_changed) + Len(r.w.on_outputs_changed)
          <= MaxSubscribers
    /\ UNCHANGED <<msig, cmsg, wallet>>
    /\ IF r.result = "Panic"
       THEN /\ aborted' = TRUE
            /\ UNCHANGED <<chain_blocks, last_macro_block_height, epoch, view_change,
                           view_change_proof, validators, validation, future_blocks,
                           on_block_added, on_epoch_changed, on_outputs_changed,
                           mempool, last_block_clock>>
       ELSE /\ aborted' = FALSE
            /\ chain_blocks' = r.w.chain_blocks
            /\ last_macro_block_height' = r.w.last_macro_block_height
            /\ epoch' = r.w.epoch
            /\ view_change' = r.w.view_change
            /\ view_change_proof' = r.w.view_change_proof
            /\ validators' = r.w.validators
            /\ validation' = r.w.validation
            /\ future_blocks' = r.w.future_blocks
            /\ on_block_added' = Kept(r.w.on_block_added)
            /\ on_epoch_changed' = Kept(r.w.on_epoch_changed)
            /\ on_outputs_changed' = Kept(r.w.on_outputs_changed)
            /\ mempool' = r.w.mempool
            /\ last_block_clock' = r.w.last_block_clock

Running == initialized /\ ~aborted

\* An event is handled inside poll(), after the poll_timers call that poll()
\* starts with (lines 1560-1562): an event action requires polled.  The
\* events of one poll() follow one another with no poll_timers between.
InitNode ==
    /\ ~initialized /\ ~aborted
    /\ initialized' = TRUE
    /\ polled' = FALSE
    /\ \E net_ok \in BOOLEAN : Commit(NodeInit(At(W, net_ok, 1)))

SealedBlock ==
    /\ Running /\ polled
    /\ Height(W) < MaxHeight
    /\ UNCHANGED <<initialized, polled>>
    /\ \E i \in SealedBlockInputs(W), net_ok \in BOOLEAN, now \in NowInputs(W) :
          Commit(HandleSealedBlock(At(W, net_ok, now), i.block, i.sig_ok))

ViewChangeDirect ==
    /\ Running /\ polled
    /\ UNCHANGED <<initialized, polled>>
    /\ \E sealed \in ProofInputs(W), net_ok \in BOOLEAN, now \in NowInputs(W) :
          Commit(HandleViewChangeDirect(At(W, net_ok, now), sealed, "B"))

PopBlock ==
    /\ Running /\ polled
    /\ UNCHANGED <<initialized, polled>>
    /\ \E net_ok \in BOOLEAN, now \in NowInputs(W) :
          Commit(HandlePopBlock(At(W, net_ok, now)))

Timers ==
    /\ Running
    /\ UNCHANGED initialized
    /\ polled' = TRUE
    /\ \E ready \in BOOLEAN, net_ok \in BOOLEAN, now \in PollInputs(W) :
          Commit(PollTimers(At(W, net_ok, now), ready))

Next == InitNode \/ SealedBlock \/ ViewChangeDirect \/ PopBlock \/ Timers

Spec == Init /\ [][Next]_vars

----------------------------------------------------------------------------
\* The node among honest peers: blocks arrive in order and well formed, and
\* the consensus and view-change topics deliver the peers' messages.

\* The height of the macro block that closes the current epoch.
MacroHeight(w) == w.last_macro_block_height + BlocksInEpoch

\* The macro block the leader of a round proposes on the local chain once the
\* epoch's micro blocks are in.
ProposedBlock(w, round) ==
    LET p == HonestAt(w, MacroHeight(w) - 1)
    IN MacroBlock(MacroHeight(w), round, Hash(p),
                  SelectLeaderFrom(w.validators, Random(p), round), "x", 0, w.validators)

\* What arrives on the consensus topic: a peer's proposal for the round (the
\* round's proposal when the peer leads it) and a peer's votes for the round's
\* block, a proposal that does not extend the chain, a vote with a bad
\* signature. No peer can sign as the node itself.
ConsensusInputs(w) ==
    LET round == w.validation.round
        h == MacroHeight(w)
        block == ProposedBlock(w, round)
        peer == CHOOSE k \in Keys \ {SelfKey} : k \in w.validators
        proposed == IF block.pkey = SelfKey THEN [block EXCEPT !.pkey = peer] ELSE block
        bad == [proposed EXCEPT !.previous = ForeignHash]
    IN { ConsensusMessage("Proposal", round, h, Hash(proposed), proposed, proposed.pkey, TRUE),
         ConsensusMessage("Proposal", round, h, Hash(bad), bad, proposed.pkey, TRUE),
         ConsensusMessage("Prevote", round, h, Hash(block), NoBlock, peer, TRUE),
         ConsensusMessage("Precommit", round, h, Hash(block), NoBlock, peer, TRUE),
         ConsensusMessage("Precommit", round, h, Hash(block), NoBlock, peer, FALSE) }

\* What arrives on the view-change topic: a peer's vote for the local tip,
\* the same with a bad signature, a vote for another tip.
ViewChangeInputs(w) ==
    LET peer == CHOOSE k \in Keys \ {SelfKey} : k \in w.validators
        ci == ChainInfoFromBlockchain(w)
    IN { ViewChangeMessage(ci, peer, TRUE),
         ViewChangeMessage(ci, peer, FALSE),
         ViewChangeMessage([ci EXCEPT !.last_block = ForeignHash], peer, TRUE) }

\* The well-formed block for the tip: the leader's micro block, or the macro
\* block agreed in the current round.
HonestBlockInputs(w) ==
    IF Height(w) < MacroHeight(w) THEN { HonestAt(w, Height(w)) }
    ELSE { ProposedBlock(w, w.validation.round) }

HonestBlock ==
    /\ Running /\ polled
    /\ UNCHANGED <<initialized, polled>>
    /\ \E b \in HonestBlockInputs(W), net_ok \in BOOLEAN, now \in NowInputs(W) :
          Commit(HandleSealedBlock(At(W, net_ok, now), b, TRUE))

ConsensusMessageReceived ==
    /\ Running /\ polled
    /\ UNCHANGED <<initialized, polled>>
    /\ \E msg \in ConsensusInputs(W), net_ok \in BOOLEAN, now \in NowInputs(W) :
          Commit(HandleConsensusMessage(At(W, net_ok, now), msg))

ViewChangeMessageReceived ==
    /\ Running /\ polled
    /\ UNCHANGED <<initialized, polled>>
    /\ \E msg \in ViewChangeInputs(W), net_ok \in BOOLEAN, now \in NowInputs(W) :
          Commit(HandleViewChangeMessage(At(W, net_ok, now), msg))

\* Every handle of the node and the network service are dropped: the event
\* stream ends.
EventsClosed ==
    /\ Running
    /\ UNCHANGED initialized
    /\ polled' = TRUE
    /\ \E ready \in BOOLEAN, net_ok \in BOOLEAN, now \in PollInputs(W) :
          Commit(Poll(At(W, net_ok, now), ready, "None"))

NextConsensus ==
    \/ InitNode
    \/ HonestBlock
    \/ ConsensusMessageReceived
    \/ ViewChangeMessageReceived
    \/ PopBlock
    \/ Timers

\* The node starts on the last macro block of either producer, as one of two
\* or of three validators or as an auditor.
ConsensusValidatorSets == {{"A", "B"}, {"A", "B", "C"}, {"B", "C"}}

InitConsensus ==
    /\ chain_blocks \in {<<Genesis>>, <<[Genesis EXCEPT !.pkey = "A"]>>}
    /\ last_macro_block_height = 0
    /\ epoch \in {0, 1}
    /\ view_change = 0
    /\ view_change_proof = NoProof
    /\ validators \in ConsensusValidatorSets
    /\ validation = IF 1 < BlocksInEpoch THEN Role("MicroBlockAuditor")
                    ELSE Role("MacroBlockAuditor")
    /\ future_blocks = NoOrphans
    /\ initialized = FALSE
    /\ polled = FALSE
    /\ aborted = FALSE
    /\ on_block_added = <<>>
    /\ on_epoch_changed = <<>>
    /\ on_outputs_changed = <<>>
    /\ msig = NoCall
    /\ cmsg = NoCall
    /\ wallet = NoCall
    /\ mempool = <<>>
    /\ last_block_clock = 0

SpecConsensus == InitConsensus /\ [][NextConsensus]_vars

----------------------------------------------------------------------------
\* The node and the clients of its public API: clients subscribe to the three
\* notification streams and drop their receivers while blocks come and go.

\* The channels a client may hand over: a fresh one, its receiver there or
\* already gone.
NewChannels(w) ==
    LET used == UNION { {l[i].tx : i \in DOMAIN l} :
                        l \in {w.on_block_added, w.on_epoch_changed, w.on_outputs_changed} }
        free == (1..(MaxSubscribers + 1)) \ used
        tx == CHOOSE t \in free : \A u \in free : t <= u
    IN { Channel(tx, open) : open \in BOOLEAN }

SubscribeBlockAdded ==
    /\ Running /\ polled
    /\ UNCHANGED <<initialized, polled>>
    /\ \E tx \in NewChannels(W) : Commit(HandleBlockAdded(W, tx))

SubscribeEpochChanged ==
    /\ Running /\ polled
    /\ UNCHANGED <<initialized, polled>>
    /\ \E tx \in NewChannels(W) : Commit(HandleSubscribeEpoch(W, tx))

SubscribeOutputsChanged ==
    /\ Running /\ polled
    /\ UNCHANGED <<initialized, polled>>
    /\ \E tx \in NewChannels(W) : Commit(HandleSubscribeOutputs(W, tx))

\* A client drops the receiver of one of its subscriptions.
Dropped(list, i) == [list EXCEPT ![i].open = FALSE]

ReceiverDropped ==
    /\ Running
    /\ \/ \E i \in DOMAIN on_block_added :
             /\ on_block_added[i].open
             /\ on_block_added' = Dropped(on_block_added, i)
             /\ UNCHANGED <<on_epoch_changed, on_outputs_changed>>
       \/ \E i \in DOMAIN on_epoch_changed :
             /\ on_epoch_changed[i].open
             /\ on_epoch_changed' = Dropped(on_epoch_changed, i)
             /\ UNCHANGED <<on_block_added, on_outputs_changed>>
       \/ \E i \in DOMAIN on_outputs_changed :
             /\ on_outputs_changed[i].open
             /\ on_outputs_changed' = Dropped(on_outputs_changed, i)
             /\ UNCHANGED <<on_block_added, on_epoch_changed>>
    /\ UNCHANGED <<chain_blocks, last_macro_block_height, epoch, view_change,
                   view_change_proof, validators, validation, future_blocks, initialized,
                   polled, aborted, msig, cmsg, wallet, mempool, last_block_clock>>

NextNotify ==
    \/ InitNode
    \/ EventsClosed
    \/ HonestBlock
    \/ PopBlock
    \/ SubscribeBlockAdded
    \/ SubscribeEpochChanged
    \/ SubscribeOutputsChanged
    \/ ReceiverDropped
    \/ Timers

\* The node follows the chain as an auditor.
InitNotify ==
    /\ chain_blocks = <<Genesis>>
    /\ last_macro_block_height = 0
    /\ epoch = 1
    /\ view_change = 0
    /\ view_change_proof = NoProof
    /\ validators = {"B", "C"}
    /\ validation = IF 1 < BlocksInEpoch THEN Role("MicroBlockAuditor")
                    ELSE Role("MacroBlockAuditor")
    /\ future_blocks = NoOrphans
    /\ initialized = FALSE
    /\ polled = FALSE
    /\ aborted = FALSE
    /\ on_block_added = <<>>
    /\ on_epoch_changed = <<>>
    /\ on_outputs_changed = <<>>
    /\ msig = NoCall
    /\ cmsg = NoCall
    /\ wallet = NoCall
    /\ mempool = <<>>
    /\ last_block_clock = 0

SpecNotify == InitNotify /\ [][NextNotify]_vars

----------------------------------------------------------------------------
\* BLS multi-signatures (consensus/src/multisignature.rs).  The secret key of
\* public key k is written k as well.  An element of G1 is a sum of terms
\* sk_k * H(h) and is given by the coefficient of each term; an element of G2
\* is a sum of public keys and is given by the coefficient of each key.

\* The hashes signed.
Hashes == {"h1", "h2"}

G1Terms == Keys \X Hashes
\* G1::zero()
G1Zero == [t \in G1Terms |-> 0]
\* secure sign_hash(hash, skey): sk * H(hash)
SecureSignHash(hash, skey) == [t \in G1Terms |-> IF t = <<skey, hash>> THEN 1 ELSE 0]
\* multisig += sig
G1Add(a, b) == [t \in G1Terms |-> a[t] + b[t]]

\* G2::zero()
G2Zero == [k \in Keys |-> 0]
\* multisigpkey += pkey
G2Add(a, pkey) == [k \in Keys |-> IF k = pkey THEN a[k] + 1 ELSE a[k]]

\* secure_check_hash(hash, sig, pkey): the pairing equation
\* e(sig, g2) = e(H(hash), pkey), that is sig = sk * H(hash) for the secret
\* key sk of pkey.
SecureCheckHash(hash, sig, pkey) ==
    sig = [t \in G1Terms |-> IF t[2] = hash THEN pkey[t[1]] ELSE 0]

\* witnesses.iter().enumerate(): the position of a key in the ordered set.
Bit(witnesses, pkey) == Cardinality({k \in witnesses : KeyIndex(k) < KeyIndex(pkey)})

\* The loop of create_multi_signature over the witnesses left, in order.
RECURSIVE SumSignatures(_, _)
SumSignatures(signatures, left) ==
    IF left = <<>> THEN G1Zero
    ELSE IF Head(left) \in DOMAIN signatures
    THEN G1Add(signatures[Head(left)], SumSignatures(signatures, Tail(left)))
    ELSE SumSignatures(signatures, Tail(left))

\* The loop of check_multi_signature over the witnesses left, in order;
\* all: the whole witness set.
RECURSIVE SumKeys(_, _, _)
SumKeys(all, multisigmap, left) ==
    IF left = <<>> THEN G2Zero
    ELSE IF Bit(all, Head(left)) \in multisigmap
    THEN G2Add(SumKeys(all, multisigmap, Tail(left)), Head(left))
    ELSE SumKeys(all, multisigmap, Tail(left))

\* create_multi_signature that numbers the bits by the signatures added so far.
CreateMultiSignatureDense(witnesses, signatures) ==
    LET signed == witnesses \cap DOMAIN signatures
    IN IF Cardinality(signed) # Cardinality(DOMAIN signatures)
       THEN [result |-> "Panic", multisig |-> G1Zero, multisigmap |-> {}]
       ELSE [result |-> "Ok",
             multisig |-> SumSignatures(signatures, SortedKeys(witnesses)),
             multisigmap |-> {Bit(signed, k) : k \in signed}]

\* create_multi_signature(witnesses, signatures): the sum of the signatures of
\* the witnesses and the bitmap of their positions; assert_eq!(count,
\* signatures.len()) fails for a signature of a key that is no witness.
CreateMultiSignature(witnesses, signatures) ==
    LET signed == witnesses \cap DOMAIN signatures
    IN IF Cardinality(signed) # Cardinality(DOMAIN signatures)
       THEN [result |-> "Panic", multisig |-> G1Zero, multisigmap |-> {}]
       ELSE [result |-> "Ok",
             multisig |-> SumSignatures(signatures, SortedKeys(witnesses)),
             multisigmap |-> {Bit(witnesses, k) : k \in signed}]

\* check_multi_signature(hash, multisig, multisigmap, witnesses, leader)
CheckMultiSignature(hash, multisig, multisigmap, witnesses, leader) ==
    LET has_leader == \E k \in witnesses : Bit(witnesses, k) \in multisigmap /\ k = leader
    IN IF ~has_leader THEN FALSE
       ELSE SecureCheckHash(hash, multisig,
                            SumKeys(witnesses, multisigmap, SortedKeys(witnesses)))

\* The signature maps: each signer's entry is its signature of one of the
\* hashes (signed: the hash each signer signed).
SignatureMaps ==
    UNION { [signers -> Hashes] : signers \in SUBSET Keys }

Signatures(signed) == [k \in DOMAIN signed |-> SecureSignHash(signed[k], k)]

\* The arguments are drawn: a witness set, a hash, a leader, the signatures.
InitMultiSig ==
    /\ chain_blocks = <<Genesis>>
    /\ last_macro_block_height = 0
    /\ epoch = 0
    /\ view_change = 0
    /\ view_change_proof = NoProof
    /\ validators = {}
    /\ validation = Role("MicroBlockAuditor")
    /\ future_blocks = NoOrphans
    /\ initialized = FALSE
    /\ polled = FALSE
    /\ aborted = FALSE
    /\ on_block_added = <<>>
    /\ on_epoch_changed = <<>>
    /\ on_outputs_changed = <<>>
    /\ cmsg = NoCall
    /\ wallet = NoCall
    /\ mempool = <<>>
    /\ last_block_clock = 0
    /\ \E witnesses \in SUBSET Keys, hash \in Hashes, leader \in Keys :
          \E signed \in SignatureMaps :
             msig = [step |-> "arguments", witnesses |-> witnesses, hash |-> hash,
                     leader |-> leader, signed |-> signed]

\* create_multi_signature is applied to the witnesses and the signatures.
MultiSigCreate ==
    /\ msig.step = "arguments"
    /\ LET c == CreateMultiSignature(msig.witnesses, Signatures(msig.signed))
       IN msig' = [step |-> IF c.result = "Ok" THEN "created" ELSE "panic",
                   witnesses |-> msig.witnesses, hash |-> msig.hash, leader |-> msig.leader,
                   signed |-> msig.signed,
                   multisig |-> c.multisig, multisigmap |-> c.multisigmap]
    /\ UNCHANGED <<node_vars, cmsg, wallet, mempool>>

\* check_multi_signature is applied to what create_multi_signature returned.
MultiSigCheck ==
    /\ msig.step = "created"
    /\ msig' = [step |-> "checked",
                witnesses |-> msig.witnesses, hash |-> msig.hash, leader |-> msig.leader,
                signed |-> msig.signed,
                multisig |-> msig.multisig, multisigmap |-> msig.multisigmap,
                accepted |-> CheckMultiSignature(msig.hash, msig.multisig, msig.multisigmap,
                                                 msig.witnesses, msig.leader)]
    /\ UNCHANGED <<node_vars, cmsg, wallet, mempool>>

NextMultiSig == MultiSigCreate \/ MultiSigCheck

SpecMultiSig == InitMultiSig /\ [][NextMultiSig]_vars

----------------------------------------------------------------------------
\* Signed consensus messages (consensus/src/message.rs).

\* pbc::sign_hash(hash, skey); the secret key of public key k is written k.
SignHash(hash, skey) == [signer |-> skey, hash |-> hash]
\* pbc::check_hash(hash, sig, pkey)
CheckHash(hash, sig, pkey) == sig.signer = pkey /\ sig.hash = hash

\* ConsensusMessageBody: Proposal {request, proof}, Prevote {},
\* Precommit {request_hash_sig}
Proposal(request, proof) == [kind |-> "Proposal", request |-> request, proof |-> proof]
Prevote == [kind |-> "Prevote"]
Precommit(request_hash_sig) == [kind |-> "Precommit", request_hash_sig |-> request_hash_sig]

Bodies ==
    { Proposal(request, "p") : request \in {"r1", "r2"} }
      \cup { Prevote }
      \cup { Precommit(SignHash(h, "A")) : h \in Hashes }

\* impl Hashable for ConsensusMessageBody
BodyHash(body) ==
    CASE body.kind = "Proposal" -> <<"Propose", body.request, body.proof>>
      [] body.kind = "Prevote" -> <<"Prevote">>
      [] OTHER -> <<"Precommit", body.request_hash_sig>>

\* The digest new and validate sign and check: height, round, request_hash
\* and body fed to one Hasher.
MessageHash(height, round, request_hash, body) ==
    <<height, round, request_hash, BodyHash(body)>>

\* ConsensusMessage::new(height, round, request_hash, skey, pkey, body)
ConsensusMessageNew(height, round, request_hash, skey, pkey, body) ==
    [height |-> height, round |-> round, request_hash |-> request_hash, body |-> body,
     pkey |-> pkey, sig |-> SignHash(MessageHash(height, round, request_hash, body), skey)]

\* What validate returns, and the arguments validate_request was called with
\* (none when it was not called).
Validated(err, called) == [err |-> err, called |-> called]

\* validate that runs the proposal predicate before the signature check.
ConsensusMessageValidatePredicateFirst(msg, request_ok) ==
    IF msg.body.kind = "Proposal" /\ ~request_ok
    THEN Validated("InvalidPropose", <<<<msg.request_hash, msg.body.request, msg.round>>>>)
    ELSE IF ~CheckHash(MessageHash(msg.height, msg.round, msg.request_hash, msg.body),
                       msg.sig, msg.pkey)
    THEN Validated("InvalidMessageSignature",
                   IF msg.body.kind = "Proposal"
                   THEN <<<<msg.request_hash, msg.body.request, msg.round>>>> ELSE <<>>)
    ELSE Validated("", IF msg.body.kind = "Proposal"
                       THEN <<<<msg.request_hash, msg.body.request, msg.round>>>> ELSE <<>>)

\* ConsensusMessage::validate(validate_request); request_ok: what the
\* predicate answers when it is called.
ConsensusMessageValidate(msg, request_ok) ==
    IF ~CheckHash(MessageHash(msg.height, msg.round, msg.request_hash, msg.body),
                  msg.sig, msg.pkey)
    THEN Validated("InvalidMessageSignature", <<>>)
    ELSE IF msg.body.kind = "Proposal"
    THEN Validated(IF request_ok THEN "" ELSE "InvalidPropose",
                   <<<<msg.request_hash, msg.body.request, msg.round>>>>)
    ELSE Validated("", <<>>)

\* The messages that differ from msg in exactly one of height, round,
\* request_hash, body and sender key.
Altered(msg) ==
    ({ [msg EXCEPT !.height = h] : h \in 1..2 }
       \cup { [msg EXCEPT !.round = r] : r \in 0..1 }
       \cup { [msg EXCEPT !.request_hash = h] : h \in Hashes }
       \cup { [msg EXCEPT !.body = b] : b \in Bodies }
       \cup { [msg EXCEPT !.pkey = k] : k \in Keys }) \ {msg}

\* The arguments of new are drawn.
InitMessage ==
    /\ chain_blocks = <<Genesis>>
    /\ last_macro_block_height = 0
    /\ epoch = 0
    /\ view_change = 0
    /\ view_change_proof = NoProof
    /\ validators = {}
    /\ validation = Role("MicroBlockAuditor")
    /\ future_blocks = NoOrphans
    /\ initialized = FALSE
    /\ polled = FALSE
    /\ aborted = FALSE
    /\ on_block_added = <<>>
    /\ on_epoch_changed = <<>>
    /\ on_outputs_changed = <<>>
    /\ msig = NoCall
    /\ wallet = NoCall
    /\ mempool = <<>>
    /\ last_block_clock = 0
    /\ \E height \in 1..2, round \in 0..1, request_hash \in Hashes, body \in Bodies,
          skey \in Keys, pkey \in Keys :
          cmsg = [step |-> "arguments", height |-> height, round |-> round,
                  request_hash |-> request_hash, body |-> body, skey |-> skey, pkey |-> pkey]

\* ConsensusMessage::new is applied to the arguments.
MessageNew ==
    /\ cmsg.step = "arguments"
    /\ LET m == ConsensusMessageNew(cmsg.height, cmsg.round, cmsg.request_hash, cmsg.skey,
                                    cmsg.pkey, cmsg.body)
       IN cmsg' = [step |-> "created", skey |-> cmsg.skey, signed |-> m, msg |-> m]
    /\ UNCHANGED <<node_vars, msig, wallet, mempool>>

\* One field of the message is changed on its way.
MessageAltered ==
    /\ cmsg.step = "created" /\ cmsg.msg = cmsg.signed
    /\ \E m \in Altered(cmsg.msg) : cmsg' = [cmsg EXCEPT !.msg = m]
    /\ UNCHANGED <<node_vars, msig, wallet, mempool>>

\* validate is applied to the message received.
MessageValidate ==
    /\ cmsg.step = "created"
    /\ \E request_ok \in BOOLEAN :
          cmsg' = [step |-> "validated", skey |-> cmsg.skey, signed |-> cmsg.signed,
                   msg |-> cmsg.msg, request_ok |-> request_ok,
                   result |-> ConsensusMessageValidate(cmsg.msg, request_ok)]
    /\ UNCHANGED <<node_vars, msig, wallet, mempool>>

NextMessage == MessageNew \/ MessageAltered \/ MessageValidate

SpecMessage == InitMessage /\ [][NextMessage]_vars

----------------------------------------------------------------------------
\* The wallet (wallet/src/change.rs, wallet/src/transaction.rs): the choice
\* of the outputs a transaction spends and the unstaking transaction.  An
\* output is named by its position in the iteration over the unspent
\* outputs; the iteration order of the wallet's HashMap is arbitrary, so
\* every order of the amounts is drawn.

\* The most unspent outputs the wallet holds.
MaxUtxo == 3
\* The largest amount of one output.
MaxAmount == 5
\* The largest amount asked for.
MaxSum == 6
\* The largest fee of a transaction without change.
MaxFee == 1

\* stegos_config::PAYMENT_FEE and ESCROW_FEE (both positive, transaction.rs:458)
PAYMENT_FEE == 1
ESCROW_FEE == 1

\* sorted.sort_by_key(|(amount, _output)| *amount): a stable sort of the
\* outputs by amount.
SortByKey(unspent) ==
    LET before(j, i) == unspent[j] < unspent[i] \/ (unspent[j] = unspent[i] /\ j < i)
        rank(i) == Cardinality({ j \in DOMAIN unspent : before(j, i) }) + 1
    IN [k \in DOMAIN unspent |-> CHOOSE i \in DOMAIN unspent : rank(i) = k]

\* The loop of lines 59-65 and 73-79 from position k on: spend the outputs
\* in ascending order until the amount left is covered.
RECURSIVE SpendFrom(_, _, _, _, _)
SpendFrom(unspent, sorted, k, change, spent) ==
    IF k > Len(sorted)
    THEN [spent |-> spent, change |-> change]
    ELSE LET left == change - unspent[sorted[k]]
             taken == Append(spent, sorted[k])
         IN IF left <= 0
            THEN [spent |-> taken, change |-> left]
            ELSE SpendFrom(unspent, sorted, k + 1, left, taken)

Found(spent, fee, change) ==
    [result |-> "Ok", err |-> "", spent |-> spent, fee |-> fee, change |-> change]

WalletErr(name) ==
    [result |-> "Error", err |-> name, spent |-> <<>>, fee |-> 0, change |-> 0]

WalletPanic == [result |-> "Panic", err |-> "", spent |-> <<>>, fee |-> 0, change |-> 0]

\* The second attempt with the fee left out of the amount to cover.
WithChangeForgetsFee(unspent, sorted, sum, fee_change) ==
    LET t == SpendFrom(unspent, sorted, 1, sum, <<>>)
    IN IF t.change > 0
       THEN WalletErr("NotEnoughMoney")
       ELSE Found(t.spent, fee_change, -t.change)

\* "Try to spend with a change" (lines 70-85)
WithChange(unspent, sorted, sum, fee_change) ==
    LET t == SpendFrom(unspent, sorted, 1, sum + fee_change, <<>>)
    IN IF t.change > 0
       THEN WalletErr("NotEnoughMoney")
       ELSE Found(t.spent, fee_change, -t.change)

\* The first attempt accepting any covering prefix, the excess as change.
WithoutChangeAnyCover(unspent, sorted, sum, fee, fee_change) ==
    LET t == SpendFrom(unspent, sorted, 1, sum + fee, <<>>)
    IN IF t.change <= 0
       THEN Found(t.spent, fee, -t.change)
       ELSE WithChange(unspent, sorted, sum, fee_change)

\* "Try to spend without a change" (lines 56-68), then with a change
WithoutChange(unspent, sorted, sum, fee, fee_change) ==
    LET t == SpendFrom(unspent, sorted, 1, sum + fee, <<>>)
    IN IF t.change = 0
       THEN Found(t.spent, fee, 0)
       ELSE WithChange(unspent, sorted, sum, fee_change)

\* find_utxo(unspent_iter, sum, fee, fee_change)
FindUtxo(unspent, sum, fee, fee_change) ==
    IF sum < 0 \/ fee < 0 \/ fee_change < 0
    THEN WalletPanic
    ELSE LET exact == { i \in DOMAIN unspent : unspent[i] = sum + fee }
         IN IF exact # {}
            THEN Found(<<CHOOSE i \in exact : \A j \in exact : i <= j>>, fee, 0)
            ELSE WithoutChange(unspent, SortByKey(unspent), sum, fee, fee_change)

\* The amounts of the unspent outputs, in iteration order.
UnspentLists == UNION { [1..n -> 0..MaxAmount] : n \in 0..MaxUtxo }

\* The arguments of a call: find_utxo takes any sum, fee and fee_change that
\* are not negative (change.rs lines 36-38), fee_change below fee, equal to it
\* or above it; the callers of transaction.rs pass fee_change = fee +
\* PAYMENT_FEE or fee + ESCROW_FEE (lines 75, 166, 289, 386).
InitWallet ==
    /\ chain_blocks = <<Genesis>>
    /\ last_macro_block_height = 0
    /\ epoch = 0
    /\ view_change = 0
    /\ view_change_proof = NoProof
    /\ validators = {}
    /\ validation = Role("MicroBlockAuditor")
    /\ future_blocks = NoOrphans
    /\ initialized = FALSE
    /\ polled = FALSE
    /\ aborted = FALSE
    /\ on_block_added = <<>>
    /\ on_epoch_changed = <<>>
    /\ on_outputs_changed = <<>>
    /\ msig = NoCall
    /\ cmsg = NoCall
    /\ mempool = <<>>
    /\ last_block_clock = 0
    /\ \E unspent \in UnspentLists, sum \in 0..MaxSum :
          \E fee \in 0..MaxFee, fee_change \in 0..(MaxFee + 1) :
             wallet = [step |-> "arguments", unspent |-> unspent, sum |-> sum,
                       fee |-> fee, fee_change |-> fee_change]

\* find_utxo is applied to the arguments.
WalletFindUtxo ==
    /\ wallet.step = "arguments"
    /\ wallet' = [step |-> "find_utxo", unspent |-> wallet.unspent, sum |-> wallet.sum,
                  fee |-> wallet.fee, fee_change |-> wallet.fee_change,
                  found |-> FindUtxo(wallet.unspent, wallet.sum, wallet.fee,
                                     wallet.fee_change)]
    /\ UNCHANGED <<node_vars, msig, cmsg, mempool>>

\* An output of a transaction: Output::new_payment or Output::new_escrow.
TxOutput(kind, amount) == [kind |-> kind, amount |-> amount]

\* Ok(tx): the inputs, the outputs and the fee of the transaction.
Tx(inputs, outputs, fee) ==
    [result |-> "Ok", err |-> "", min |-> 0, got |-> 0,
     inputs |-> inputs, outputs |-> outputs, fee |-> fee]

TxErr(name, min, got) ==
    [result |-> "Error", err |-> name, min |-> min, got |-> got,
     inputs |-> <<>>, outputs |-> <<>>, fee |-> 0]

TxPanic ==
    [result |-> "Panic", err |-> "", min |-> 0, got |-> 0,
     inputs |-> <<>>, outputs |-> <<>>, fee |-> 0]

\* The stake test refusing only an empty re-stake.
StakeTooSmallOnlyZero(fee, change) == fee > PAYMENT_FEE /\ change <= 0

\* "Stake must be > PAYMENT_FEE" (transaction.rs line 391)
StakeTooSmall(fee, change) == fee > PAYMENT_FEE /\ change <= PAYMENT_FEE

\* create_unstaking_transaction(.., unspent, amount)
CreateUnstakingTransaction(unspent, amount) ==
    IF amount <= PAYMENT_FEE
    THEN TxErr("ZeroOrNegativeAmount", 0, 0)
    ELSE LET f == FindUtxo(unspent, amount - PAYMENT_FEE, PAYMENT_FEE,
                           PAYMENT_FEE + ESCROW_FEE)
             payment == TxOutput("payment", amount - PAYMENT_FEE)
         IN IF f.result = "Panic" THEN TxPanic
            ELSE IF f.result = "Error" THEN TxErr(f.err, 0, 0)
            ELSE IF StakeTooSmall(f.fee, f.change)
            THEN TxErr("InsufficientStake", PAYMENT_FEE + 1, f.change)
            ELSE IF f.change > 0
            THEN IF f.fee # PAYMENT_FEE + ESCROW_FEE
                 THEN TxPanic
                 ELSE Tx(f.spent, <<payment, TxOutput("escrow", f.change)>>, f.fee)
            ELSE Tx(f.spent, <<payment>>, f.fee)

\* create_unstaking_transaction is applied to the unspent stakes and the
\* amount.
WalletUnstake ==
    /\ wallet.step = "arguments"
    /\ wallet' = [step |-> "unstaking", unspent |-> wallet.unspent, amount |-> wallet.sum,
                  tx |-> CreateUnstakingTransaction(wallet.unspent, wallet.sum)]
    /\ UNCHANGED <<node_vars, msig, cmsg, mempool>>

NextWallet == WalletFindUtxo \/ WalletUnstake

SpecWallet == InitWallet /\ [][NextWallet]_vars

----------------------------------------------------------------------------
\* The mempool and the transactions received from the network
\* (NodeService::handle_transaction).  A transaction is known by the number
\* of its inputs and of its outputs; whether the chain's validation accepts
\* it is drawn with the transaction.


\* NodeService::handle_transaction(tx); valid: validate_transaction accepts tx.
HandleTransaction(w, tx, valid) ==
    LET utxo_count == tx.txins + tx.txouts
        utxo_in_mempool == MempoolInputsLen(w.mempool) + MempoolOutputsLen(w.mempool)
    IN IF utxo_count > MaxUtxoInTx
       THEN Ret(w, "Error", Err("NodeTransactionError", "TooLarge"))
       ELSE IF utxo_in_mempool > MaxUtxoInMempool
       THEN Ret(w, "Error", Err("NodeTransactionError", "MempoolIsFull"))
       ELSE IF ~valid
       THEN Ret(w, "Error", Err("TransactionError", "Invalid"))
       ELSE Ret([w EXCEPT !.mempool = MempoolPushTx(@, tx)], "Ok", NoErr)

\* The transactions the network may deliver.
Transactions ==
    { Transaction(txins, txouts) : txins \in 1..MaxUtxoInTx, txouts \in 1..MaxUtxoInTx }

\* The node is one of two validators; the first micro block is its own or
\* its peer's.
InitMempool ==
    /\ chain_blocks \in {<<Genesis>>, <<[Genesis EXCEPT !.pkey = "A"]>>}
    /\ last_macro_block_height = 0
    /\ epoch = 0
    /\ view_change = 0
    /\ view_change_proof = NoProof
    /\ validators = {"A", "B"}
    /\ validation = IF 1 < BlocksInEpoch THEN Role("MicroBlockAuditor")
                    ELSE Role("MacroBlockAuditor")
    /\ future_blocks = NoOrphans
    /\ initialized = FALSE
    /\ polled = FALSE
    /\ aborted = FALSE
    /\ on_block_added = <<>>
    /\ on_epoch_changed = <<>>
    /\ on_outputs_changed = <<>>
    /\ msig = NoCall
    /\ cmsg = NoCall
    /\ wallet = NoCall
    /\ mempool = <<>>
    /\ last_block_clock = 0

\* A transaction arrives on the transaction topic.
TransactionReceived ==
    /\ Running /\ polled
    /\ UNCHANGED <<initialized, polled>>
    /\ \E tx \in Transactions, valid \in BOOLEAN : Commit(HandleTransaction(W, tx, valid))

\* The block a peer that leads the tip seals: it carries what the peer's
\* mempool yields, the transactions this node has queued or none of them.
PeerBlockInputs(w) ==
    IF Height(w) < w.last_macro_block_height + BlocksInEpoch /\ Leader(w) # SelfKey
    THEN LET b == MicroBlock(Height(w), w.view_change, LastBlockHash(w), Leader(w), "x",
                             cfg_block_reward, w.view_change_proof)
         IN { b, [b EXCEPT !.transactions = MempoolCreateBlock(w.mempool)] }
    ELSE {}

PeerBlock ==
    /\ Running /\ polled
    /\ UNCHANGED <<initialized, polled>>
    /\ \E b \in PeerBlockInputs(W), net_ok \in BOOLEAN, now \in NowInputs(W) :
          Commit(HandleSealedBlock(At(W, net_ok, now), b, TRUE))

NextMempool == InitNode \/ TransactionReceived \/ PeerBlock \/ Timers

SpecMempool == InitMempool /\ [][NextMempool]_vars

----------------------------------------------------------------------------
\* Properties of the fork resolver, the sealed-block handler and the role
\* state.  Each is stated for every event the node may receive in the
\* current state: the handler's outcome is compared with the state it ran on.

Range(seq) == { seq[k] : k \in DOMAIN seq }

\* The received blocks handle_sealed_block hands to resolve_fork (lines 688-689).
ForkInputs(w) ==
    { i.block : i \in { j \in SealedBlockInputs(w) :
                          /\ j.sig_ok
                          /\ j.block.height > w.last_macro_block_height
                          /\ j.block.height < Height(w)
                          /\ (j.block.kind = "micro" => IsValidator(w, j.block.pkey)) } }

\* The received blocks handle_sealed_block buffers without a fork (line 719).
BufferInputs(w) ==
    { i.block : i \in { j \in SealedBlockInputs(w) :
                          /\ j.sig_ok
                          /\ j.block.height >= Height(w)
                          /\ j.block.height <= w.last_macro_block_height + BlocksInEpoch
                          /\ (j.block.kind = "micro" => IsValidator(w, j.block.pkey)) } }

\* The leader resolve_fork elects for a remote block (lines 450-453).
ForkLeader(w, b) ==
    SelectLeaderFrom(w.validators, Random(BlockByHeight(w, b.height - 1)), b.view_change)

\* The role update_validation_status is to choose for a chain.
ExpectedRoleKind(w) ==
    IF Len(w.chain_blocks) < BlocksInEpoch
    THEN IF SelfKey \in w.validators THEN "MicroBlockValidator" ELSE "MicroBlockAuditor"
    ELSE IF SelfKey \in w.validators THEN "MacroBlockValidator" ELSE "MacroBlockAuditor"

\* C1: a micro block below the tip, produced by the leader of its view, with
\* the view of the local block at its height and another hash, makes the
\* resolver cancel, count one cheat and roll nothing back.
C1_CheatCounted ==
    \A b \in ForkInputs(W) :
        (/\ b.kind = "micro"
         /\ b.pkey = ForkLeader(W, b)
         /\ b.view_change = BlockByHeight(W, b.height).view_change
         /\ Hash(b) # Hash(BlockByHeight(W, b.height)))
        => LET r == ResolveFork(W, b)
           IN /\ r.result = "Canceled"
              /\ r.w.out.cheats = 1
              /\ r.w.chain_blocks = chain_blocks

\* C2: when try_rollback accepts a sealed proof for (h, v), the chain height
\* is h on return, the chain's view is v + 1 with that proof recorded, the
\* blocks below h are kept, and one OutputsChanged went out per popped block:
\* old tip - h in all.
C2_RollbackPostcondition ==
    \A s \in ProofInputs(W) :
        LET r == TryRollback(W, "B", s)
            h == s.chain.height
        IN r.result = "Ok"
           => /\ h > last_macro_block_height /\ h <= Height(W)
              /\ ProofValidate(s.proof, s.chain)
              /\ Height(r.w) = h
              /\ r.w.chain_blocks = SubSeq(chain_blocks, 1, h - last_macro_block_height)
              /\ r.w.view_change = s.chain.view_change + 1
              /\ r.w.view_change_proof = s.proof
              /\ r.w.out.outputs_changed = Height(W) - h
              /\ r.w.out.forks = 1

\* C2 witness: a proof is accepted that pops two micro blocks.
C2_Witness ==
    \E s \in ProofInputs(W) :
        /\ TryRollback(W, "B", s).result = "Ok"
        /\ Height(W) - s.chain.height >= 2

\* C3: when the resolver accepts a remote micro block at h below the tip, the
\* same sealed-block event applies it: the block at h is the remote one, the
\* tip is h + 1, BlockAdded fired for it, OutputsChanged fired once per popped
\* block and once for the apply; whatever the role state.
C3_AcceptedForkApplied ==
    \A b \in ForkInputs(W) :
        ResolveFork(W, b).result = "Ok"
        => LET r == HandleSealedBlock(W, b, TRUE)
           IN /\ r.result = "Ok"
              /\ r.err = NoErr
              /\ Height(r.w) = b.height + 1
              /\ BlockByHeight(r.w, b.height) = b
              /\ [height |-> b.height, hash |-> Hash(b)] \in Range(r.w.out.block_added)
              /\ r.w.out.outputs_changed = (Height(W) - b.height) + 1

\* C4: the chain is never truncated to last_macro_block_height or below:
\* pop_block and both entries of the fork resolver keep the macro block that
\* starts the epoch, and never ask the chain to pop at that boundary.
C4_MacroBlockKept ==
    /\ Height(W) > last_macro_block_height
    /\ chain_blocks[1].kind = "macro"
    /\ \A k \in 2..Len(chain_blocks) : chain_blocks[k].kind = "micro"
    /\ LET r == HandlePopBlock(W)
       IN /\ r.err.name # "PopRefused"
          /\ Height(r.w) > last_macro_block_height
          /\ r.w.chain_blocks[1] = chain_blocks[1]
    /\ \A s \in ProofInputs(W) :
          LET r == TryRollback(W, "B", s)
          IN /\ r.err.name # "PopRefused"
             /\ Height(r.w) > last_macro_block_height
             /\ r.w.chain_blocks[1] = chain_blocks[1]
    /\ \A b \in ForkInputs(W) :
          LET r == ResolveFork(W, b)
          IN /\ r.err.name # "PopRefused"
             /\ Height(r.w) > last_macro_block_height
             /\ r.w.chain_blocks[1] = chain_blocks[1]

\* C4 witness: a proof rolls the chain back from a higher tip to the first
\* height of the epoch, where pop_block then leaves the macro block alone.
C4_Witness ==
    \E s \in ProofInputs(W) :
        LET r == TryRollback(W, "B", s)
        IN /\ r.result = "Ok"
           /\ s.chain.height = last_macro_block_height + 1
           /\ Height(W) > s.chain.height
           /\ HandlePopBlock(r.w).w.chain_blocks = r.w.chain_blocks

\* C5: when resolve_fork or try_rollback returns Canceled or an error, the
\* chain (its height, its last block, its view and view-change proof) is what
\* it was before the call.
C5_RefusedForkKeepsChain ==
    /\ \A b \in ForkInputs(W) :
          LET r == ResolveFork(W, b)
          IN r.result \in {"Canceled", "Error"}
             => /\ Height(r.w) = Height(W)
                /\ LastBlockHash(r.w) = LastBlockHash(W)
                /\ r.w.chain_blocks = chain_blocks
                /\ r.w.view_change = view_change
                /\ r.w.view_change_proof = view_change_proof
    /\ \A s \in ProofInputs(W) :
          LET r == TryRollback(W, "B", s)
          IN r.result \in {"Canceled", "Error"}
             => /\ Height(r.w) = Height(W)
                /\ LastBlockHash(r.w) = LastBlockHash(W)
                /\ r.w.chain_blocks = chain_blocks
                /\ r.w.view_change = view_change
                /\ r.w.view_change_proof = view_change_proof

\* C5 witness: a proof for a height below the tip passes the view and
\* previous-hash checks and is refused for its signature, and a remote block
\* below the tip is refused for lacking a proof.
C5_Witness ==
    /\ \E s \in ProofInputs(W) :
          /\ s.chain.height < Height(W)
          /\ TryRollback(W, "B", s).err.name = "InvalidViewChangeProof"
    /\ \E b \in ForkInputs(W) : ResolveFork(W, b).err.name = "NoProofWasFound"

\* C6: a received block with the hash of the block already applied at its
\* height is dropped: the event ends Ok with the chain, the view and the
\* orphan buffer as they were, and with no effect at all (no block added, no
\* rollback, no cheat, nothing sent or requested).
C6_DuplicateDropped ==
    \A b \in ForkInputs(W) :
        Hash(b) = Hash(BlockByHeight(W, b.height))
        => LET r == HandleSealedBlock(W, b, TRUE)
           IN /\ r.result = "Ok"
              /\ r.w.chain_blocks = chain_blocks
              /\ r.w.view_change = view_change
              /\ r.w.future_blocks = future_blocks
              /\ r.w.validation = validation
              /\ r.w.out = NoEffects

\* C6 witness: a copy of a local block below the tip arrives while an orphan
\* is buffered.
C6_Witness ==
    /\ DOMAIN future_blocks # {}
    /\ \E b \in ForkInputs(W) : Hash(b) = Hash(BlockByHeight(W, b.height))

\* C7 as stated: any remote micro block below the tip with a view lower than
\* the local block's makes the resolver cancel, keep the chain and send the
\* local blocks from its height up to the tip to its producer.
C7_LowerViewSendsBlocks ==
    \A b \in ForkInputs(W) :
        (b.kind = "micro" /\ b.view_change < BlockByHeight(W, b.height).view_change)
        => LET r == ResolveFork(W, b)
           IN /\ r.result = "Canceled"
              /\ r.w.chain_blocks = chain_blocks
              /\ r.w.view_change = view_change
              /\ r.w.out.send_blocks =
                    <<[to |-> b.pkey, from |-> b.height, upto |-> Height(W)]>>

\* C7 amended: a remote micro block below the tip with a view lower than the
\* local block's, produced by the leader of its view, makes the resolver
\* cancel, keep the chain and send the local blocks from its height up to the
\* tip to its producer; one produced by another validator is refused with
\* DifferentPublicKey and nothing is sent.
C7_LowerViewFromLeaderSendsBlocks ==
    \A b \in ForkInputs(W) :
        (b.kind = "micro" /\ b.view_change < BlockByHeight(W, b.height).view_change)
        => LET r == ResolveFork(W, b)
           IN /\ r.w.chain_blocks = chain_blocks
              /\ r.w.view_change = view_change
              /\ IF b.pkey = ForkLeader(W, b)
                 THEN /\ r.result = "Canceled"
                      /\ r.w.out.send_blocks =
                            <<[to |-> b.pkey, from |-> b.height, upto |-> Height(W)]>>
                 ELSE /\ r.result = "Error"
                      /\ r.err.name = "DifferentPublicKey"
                      /\ r.w.out.send_blocks = <<>>

\* C7 witness: a lower-view block of the leader arrives for a height two
\* below the tip.
C7_Witness ==
    \E b \in ForkInputs(W) :
        /\ b.kind = "micro"
        /\ b.view_change < BlockByHeight(W, b.height).view_change
        /\ b.pkey = ForkLeader(W, b)
        /\ Height(W) - b.height >= 2

\* C8: after every successful block application, of a received block or of
\* the node's own micro block, the role is the one the chain calls for: a
\* micro variant iff the epoch holds fewer than BlocksInEpoch blocks, a
\* validator variant iff the node's key is in the validator set.
C8_RoleRecomputed ==
    /\ \A b \in BufferInputs(W) \cup ForkInputs(W) :
          LET r == HandleSealedBlock(W, b, TRUE)
          IN (r.result = "Ok" /\ r.w.out.block_added # <<>>)
             => r.w.validation.kind = ExpectedRoleKind(r.w)
    /\ LET r == PollTimers(W, TRUE)
       IN (r.result = "Ok" /\ r.w.out.block_added # <<>>)
          => r.w.validation.kind = ExpectedRoleKind(r.w)

\* C8 witness: a macro block validator applies a macro block that drops the
\* node from the validator set and becomes a micro block auditor.
C8_Witness ==
    /\ validation.kind = "MacroBlockValidator"
    /\ \E b \in BufferInputs(W) :
          LET r == HandleSealedBlock(W, b, TRUE)
          IN /\ r.result = "Ok" /\ r.w.out.block_added # <<>>
             /\ r.w.validation.kind = "MicroBlockAuditor"

\* C9: a received block of the current epoch above the tip is buffered and
\* not applied, and a sealed-block event that completes without an apply
\* error leaves no orphan keyed at the tip.
C9_NoOrphanAtTip ==
    /\ \A b \in BufferInputs(W) :
          b.height > Height(W)
          => LET r == HandleSealedBlock(W, b, TRUE)
             IN /\ r.w.chain_blocks = chain_blocks
                /\ b.height \in DOMAIN r.w.future_blocks
                /\ r.w.future_blocks[b.height] = b
    /\ \A i \in SealedBlockInputs(W) :
          LET r == HandleSealedBlock(W, i.block, i.sig_ok)
          IN (r.result = "Ok" /\ r.err = NoErr)
             => Height(r.w) \notin DOMAIN r.w.future_blocks

\* C10 as stated: a sealed-block event for a block of the current epoch ends
\* with a history request iff it ends with a non-empty orphan buffer.
C10_HistoryIffOrphans ==
    \A i \in SealedBlockInputs(W) :
        (/\ i.block.height > last_macro_block_height
         /\ i.block.height <= last_macro_block_height + BlocksInEpoch)
        => LET r == HandleSealedBlock(W, i.block, i.sig_ok)
           IN r.result # "Panic"
              => (r.w.out.request_history > 0 <=> DOMAIN r.w.future_blocks # {})

\* C10 amended: a sealed-block event that reaches the buffering step (the
\* block is of the current epoch, passes the signature checks and is at or
\* above the tip or won fork resolution) ends with exactly one request to the
\* leader (request_history) if the orphan buffer is non-empty and with none if
\* it is empty, and with no request to a single node.  An event that ends
\* before that step (bad signature, producer no validator, fork canceled or
\* refused) issues no request to the leader, whatever the buffer holds; it
\* issues one request, to the producer of the block (request_history_from), if
\* and only if fork resolution reached try_rollback and was canceled there
\* because the previous hash of the received block is not the previous hash
\* of the local block of that height.
C10_HistoryIffOrphansAfterBuffering ==
    /\ \A b \in BufferInputs(W) :
          LET r == HandleSealedBlock(W, b, TRUE)
          IN r.result # "Panic"
             => /\ r.w.out.request_history =
                      IF DOMAIN r.w.future_blocks # {} THEN 1 ELSE 0
                /\ r.w.out.request_history_from = <<>>
    /\ \A b \in ForkInputs(W) :
          LET r == HandleSealedBlock(W, b, TRUE)
              f == ResolveFork(W, b)
              local == BlockByHeight(W, b.height)
              mismatch == /\ b.kind = "micro" /\ local.kind = "micro"
                          /\ ForkLeader(W, b) = b.pkey
                          /\ b.view_change > local.view_change
                          /\ b.proof.present
                          /\ b.previous # local.previous
          IN r.result # "Panic"
             => /\ r.w.out.request_history =
                      IF f.result = "Ok" /\ DOMAIN r.w.future_blocks # {}
                      THEN 1 ELSE 0
                /\ r.w.out.request_history_from =
                      IF mismatch THEN <<b.pkey>> ELSE <<>>
                /\ mismatch => (f.result = "Canceled" /\ r.result = "Ok"
                                /\ r.w.chain_blocks = chain_blocks)
    /\ \A i \in SealedBlockInputs(W) :
          (/\ i.block.height > last_macro_block_height
           /\ i.block.height <= last_macro_block_height + BlocksInEpoch
           /\ (~i.sig_ok \/ (i.block.kind = "micro" /\ ~IsValidator(W, i.block.pkey))))
          => LET r == HandleSealedBlock(W, i.block, i.sig_ok)
             IN /\ r.result = "Error"
                /\ r.w.out.request_history = 0
                /\ r.w.out.request_history_from = <<>>

\* C10 witness: a block arrives at the tip while the block above it is
\* buffered; both are applied, the buffer is empty and no history is asked.
C10_Witness ==
    \E b \in BufferInputs(W) :
        LET r == HandleSealedBlock(W, b, TRUE)
        IN /\ DOMAIN future_blocks # {}
           /\ Len(r.w.out.block_added) = 2
           /\ DOMAIN r.w.future_blocks = {}
           /\ r.w.out.request_history = 0

----------------------------------------------------------------------------
\* Properties of the orphan buffer under tip advances of every kind, of the
\* consensus and view-change message handlers and of the timers.

\* C11: every event that advances the tip drains the orphan buffer, so that
\* no orphan keyed at the new tip is left behind: also when the propose timer
\* makes the node produce its own micro block, and when the macro view-change
\* timer commits the agreed macro block.
C11_DrainOnEveryTipAdvance ==
    Running
    => LET r == PollTimers(W, TRUE)
       IN (r.result = "Ok" /\ Height(r.w) > Height(W))
          => Height(r.w) \notin DOMAIN r.w.future_blocks

\* C12: an event that applies the macro block closing a complete epoch leaves
\* the orphan buffer empty: no orphan received in an epoch is still buffered
\* once that epoch is over.
C12_BufferEmptyAfterMacroBlock ==
    (Running /\ Len(chain_blocks) = BlocksInEpoch)
    => \A i \in SealedBlockInputs(W) :
          LET r == HandleSealedBlock(W, i.block, i.sig_ok)
          IN (r.result = "Ok" /\ r.w.out.epoch_changed > 0)
             => DOMAIN r.w.future_blocks = {}

\* C13: the consensus messages a micro block validator has buffered stay
\* buffered, in receipt order, while further micro blocks are applied or a
\* block is popped, and the event that makes the node a macro block validator
\* hands all of them, in that order, to the consensus engine (those that pass
\* validation are fed).
C13_BufferedMessagesReplayed ==
    (Running /\ validation.kind = "MicroBlockValidator")
    => LET buffered == validation.future_consensus_messages
           kept(r) ==
               /\ r.w.validation.kind = "MicroBlockValidator"
                  => r.w.validation.future_consensus_messages = buffered
               /\ r.w.validation.kind = "MacroBlockValidator"
                  => r.w.out.fed =
                       SelectSeq(buffered,
                                 LAMBDA m : ValidateConsensusMessage(r.w, m) = NoErr)
       IN /\ \A b \in HonestBlockInputs(W) :
                LET r == HandleSealedBlock(W, b, TRUE)
                IN (r.result = "Ok" /\ r.w.out.block_added # <<>>) => kept(r)
          /\ LET r == HandlePopBlock(W) IN r.result = "Ok" => kept(r)

\* C14: a consensus message is handled by role.  An auditor (micro or macro)
\* changes no state and publishes nothing; a micro block validator only
\* appends the message, unvalidated, to its buffer of future messages; a
\* macro block validator validates it and gives it to the engine only if it
\* is valid: a message that fails validation is an error that leaves the
\* state, the engine included, as it was and publishes nothing.
C14_ConsensusGatedByRole ==
    Running
    => \A msg \in ConsensusInputs(W) :
          LET r == HandleConsensusMessage(W, msg) IN
          /\ validation.kind \in {"MicroBlockAuditor", "MacroBlockAuditor"}
             => (r.result = "Ok" /\ r.w = W)
          /\ validation.kind = "MicroBlockValidator"
             => /\ r.result = "Ok"
                /\ r.w = [W EXCEPT !.validation.future_consensus_messages = Append(@, msg)]
          /\ validation.kind = "MacroBlockValidator"
             => IF ValidateConsensusMessage(W, msg) # NoErr
                THEN r.result = "Error" /\ r.w = W
                ELSE r.w.out.fed = <<msg>>

\* C14 witness: a macro block validator receives a precommit with a bad
\* signature, which is refused, and a valid one, which its engine tallies.
C14_Witness ==
    /\ Running
    /\ validation.kind = "MacroBlockValidator"
    /\ \E msg \in ConsensusInputs(W) :
          /\ msg.kind = "Precommit" /\ ~msg.sig_ok
          /\ HandleConsensusMessage(W, msg).result = "Error"
    /\ \E msg \in ConsensusInputs(W) :
          /\ msg.kind = "Precommit" /\ msg.sig_ok
          /\ HandleConsensusMessage(W, msg).w.validation.precommits # validation.precommits

\* A valid message that, fed to the engine of a macro block validator, takes
\* should_commit() from false to true.
MakesShouldCommit(w, msg) ==
    /\ w.validation.kind = "MacroBlockValidator"
    /\ ~w.validation.should_commit
    /\ ValidateConsensusMessage(w, msg) = NoErr
    /\ FeedMessage(w, msg).result = "Ok"
    /\ FeedMessage(w, msg).w.validation.should_commit

\* C15 as stated: on every macro block validator, leader or not, the event
\* that feeds the message making should_commit() true seals and publishes the
\* macro block and applies it to the local chain.
C15_CommitAppliedInSameEvent ==
    Running
    => \A msg \in ConsensusInputs(W) :
          MakesShouldCommit(W, msg)
          => LET r == HandleConsensusMessage(W, msg)
             IN /\ r.w.out.sealed # <<>>
                /\ Height(r.w) = Height(W) + 1

\* C15 amended: when feeding a message makes should_commit() true on the
\* leader of the round, the same event seals the proposed block with the
\* collected precommits, publishes it once and applies it (the tip advances
\* by one, the epoch changes, BlockAdded fires once); on any other validator
\* the event seals, publishes and applies nothing: the node stays a macro
\* block validator with should_commit() true and its chain as it was.
C15_LeaderCommitsInSameEvent ==
    Running
    => \A msg \in ConsensusInputs(W) :
          MakesShouldCommit(W, msg)
          => LET r == HandleConsensusMessage(W, msg) IN
             IF ConsensusIsLeader(W)
             THEN /\ r.result = "Ok"
                  /\ r.w.out.sealed = <<Hash(validation.proposal)>>
                  /\ r.w.out.multisig = <<FeedMessage(W, msg).w.validation.precommits>>
                  /\ Len(r.w.out.block_added) = 1
                  /\ r.w.out.epoch_changed = 1
                  /\ Height(r.w) = Height(W) + 1
                  /\ r.w.last_macro_block_height = Height(W)
                  /\ LastBlockHash(r.w) = Hash(validation.proposal)
             ELSE /\ r.result = "Ok"
                  /\ r.w.out.sealed = <<>>
                  /\ r.w.out.block_added = <<>>
                  /\ r.w.chain_blocks = chain_blocks
                  /\ r.w.validation.kind = "MacroBlockValidator"
                  /\ r.w.validation.should_commit

\* C15 witness: the leader of the round receives the precommit that completes
\* the supermajority and applies its macro block.
C15_Witness ==
    /\ Running
    /\ ConsensusIsLeader(W)
    /\ \E msg \in ConsensusInputs(W) :
          /\ MakesShouldCommit(W, msg)
          /\ HandleConsensusMessage(W, msg).w.out.epoch_changed = 1

\* C16: every run of the macro block view-change timer handler that completes
\* has issued a history request: when it moves to the next round and when it
\* commits the block already agreed.
C16_HistoryRequestedOnMacroTimer ==
    (Running /\ validation.kind = "MacroBlockValidator" /\ validation.view_change_timer)
    => LET r == PollTimers(W, TRUE)
       IN r.result = "Ok" => r.w.out.request_history >= 1

\* C17: when the macro view-change timer expires on a validator whose engine
\* has should_commit() true, that validator is not the leader of the round;
\* the handler seals the block the round leader proposed with the collected
\* precommits merged with the leader's proposal signature, publishes it once,
\* applies it (the tip advances by one and the epoch changes) and increments
\* AUTOCOMMIT exactly once.  The sealed block is the proposal of the round
\* leader, so every follower that auto-commits in that round seals the same
\* block.  The leader of a round never has the timer armed.
C17_AutoCommit ==
    (Running /\ validation.kind = "MacroBlockValidator")
    => /\ ConsensusIsLeader(W) => ~validation.view_change_timer
       /\ (validation.view_change_timer /\ validation.should_commit)
          => LET r == PollTimers(W, TRUE)
                 leader == SelectLeader(W, validation.round)
             IN /\ leader # SelfKey
                /\ validation.proposal = ProposedBlock(W, validation.round)
                /\ validation.proposal.pkey = leader
                /\ r.result = "Ok"
                /\ r.w.out.autocommit = 1
                /\ r.w.out.sealed = <<Hash(validation.proposal)>>
                /\ r.w.out.multisig = <<validation.precommits \cup {leader}>>
                /\ Supermajority(validation.precommits, validators)
                /\ r.w.out.block_added
                     = <<[height |-> Height(W), hash |-> Hash(validation.proposal)]>>
                /\ r.w.out.epoch_changed = 1
                /\ Height(r.w) = Height(W) + 1
                /\ r.w.last_macro_block_height = Height(W)

\* C17 witness: a follower of three validators holds a supermajority of
\* precommits that does not include the round leader's, and its timer expires.
C17_Witness ==
    /\ Running
    /\ validation.kind = "MacroBlockValidator"
    /\ validation.view_change_timer /\ validation.should_commit
    /\ validation.proposal.pkey \notin validation.precommits
    /\ PollTimers(W, TRUE).w.out.autocommit = 1

\* The chain and the timers after a view change on the sealed proof: the view
\* is one higher with the proof recorded, the blocks are the same, and the
\* timer of the node's part in the new view is armed.
ViewChanged(w, proof, r) ==
    /\ r.result = "Ok"
    /\ r.w.view_change = w.view_change + 1
    /\ r.w.view_change_proof = proof
    /\ proof.present
    /\ r.w.chain_blocks = w.chain_blocks
    /\ Height(r.w) = Height(w) /\ LastBlockHash(r.w) = LastBlockHash(w)
    /\ r.w.validation.kind = "MicroBlockValidator"
    /\ IF SelectLeader(w, w.view_change + 1) = SelfKey
       THEN r.w.validation.propose_timer
       ELSE r.w.validation.view_change_timer

\* C18: when the collector of a micro block validator returns a sealed proof,
\* for a received vote or for the node's own vote on a timeout, the view
\* becomes one higher with that proof recorded, height and last block stay,
\* and the propose timer is armed if the node leads the new view, the
\* view-change timer otherwise.  In every other role a view-change message
\* changes nothing.
C18_ViewChangeOnProof ==
    Running
    => /\ \A msg \in ViewChangeInputs(W) :
             LET r == HandleViewChangeMessage(W, msg)
                 c == CollectorHandleMessage(W, msg)
             IN IF validation.kind # "MicroBlockValidator"
                THEN r.result = "Ok" /\ r.w = W
                ELSE (c.err = NoErr /\ c.proof # NoProof) => ViewChanged(W, c.proof, r)
       /\ (validation.kind = "MicroBlockValidator" /\ ~validation.propose_timer
           /\ validation.view_change_timer)
          => LET c == CollectorHandleMessage(
                          W, ViewChangeMessage(ChainInfoFromBlockchain(W), SelfKey, TRUE))
             IN c.proof # NoProof => ViewChanged(W, c.proof, PollTimers(W, TRUE))

\* C18 witness: the vote that completes the supermajority arrives at a micro
\* block validator that leads the next view and has no propose timer armed.
C18_Witness ==
    /\ Running
    /\ validation.kind = "MicroBlockValidator"
    /\ ~validation.propose_timer
    /\ SelectLeader(W, view_change + 1) = SelfKey
    /\ \E msg \in ViewChangeInputs(W) :
          /\ CollectorHandleMessage(W, msg).proof # NoProof
          /\ HandleViewChangeMessage(W, msg).w.validation.propose_timer

\* A micro block validator that is not the leader, waits with its view-change
\* timer armed and has not voted for the current view.
WaitsForBlock ==
    /\ Running
    /\ validation.kind = "MicroBlockValidator"
    /\ Leader(W) # SelfKey
    /\ ~validation.propose_timer /\ validation.view_change_timer
    /\ SelfKey \notin validation.collector

\* C19: a validator that is not the leader and waits for a micro block emits
\* its view-change vote once the deadline has passed and arms the timer
\* again; until then, as long as no block and no view change moves it on, its
\* view-change timer stays armed across every event, so that a later poll
\* can find it expired.
C19_VoteEventuallyEmitted ==
    [][(/\ WaitsForBlock
        /\ chain_blocks' = chain_blocks
        /\ view_change' = view_change
        /\ ~aborted')
       => validation'.view_change_timer]_vars

\* The timer that poll_timers takes out of the state and polls.
PolledTimer(w) ==
    IF w.validation.kind = "MicroBlockValidator"
    THEN IF w.validation.propose_timer THEN "propose"
         ELSE IF w.validation.view_change_timer THEN "micro_view_change"
         ELSE "none"
    ELSE IF w.validation.kind = "MacroBlockValidator" /\ w.validation.view_change_timer
    THEN "macro_view_change"
    ELSE "none"

\* C20: one poll of the timers invokes at most one expiry handler, and only for
\* a timer that is armed and has expired; the handler runs with that timer
\* cleared, so the timer is armed after the poll only where the handler or the
\* role it installs has armed it again (own vote sent, next round started,
\* block applied), never as a leftover of the expiry just handled.
C20_ExpiryHandledOnce ==
    Running =>
    \A ready \in BOOLEAN :
        LET r == PollTimers(W, ready)
            t == PolledTimer(W)
        IN /\ (t = "none" \/ ~ready) =>
                  /\ r.result = "Ok"
                  /\ r.w.out = NoEffects
                  /\ r.w.chain_blocks = W.chain_blocks
                  /\ r.w.validation.round = W.validation.round
           /\ Len(r.w.out.votes) <= 1
           /\ Len(r.w.out.sealed) <= 1
           /\ r.w.out.autocommit <= 1
           /\ (ready /\ t = "propose" /\ r.w.validation.kind = "MicroBlockValidator"
                     /\ r.w.validation.propose_timer) =>
                  r.result = "Ok" /\ Height(r.w) = Height(W) + 1
           /\ (ready /\ t = "micro_view_change" /\ r.result = "Ok") =>
                  Len(r.w.out.votes) = 1 /\ Len(r.w.out.sealed) = 0
           /\ (ready /\ t = "macro_view_change" /\ r.w.validation.kind = "MacroBlockValidator"
                     /\ r.w.validation.view_change_timer) =>
                  /\ r.result = "Ok"
                  /\ \/ r.w.validation.round = W.validation.round + 1
                     \/ Height(r.w) = Height(W) + 1

\* A micro block validator whose view-change timer has expired: the handler
\* runs once, one vote is sent and the timer is armed again by the handler.
C20_Witness ==
    /\ Running
    /\ PolledTimer(W) = "micro_view_change"
    /\ LET r == PollTimers(W, TRUE)
       IN /\ r.result = "Ok"
          /\ Len(r.w.out.votes) = 1
          /\ r.w.validation.view_change_timer

\* C21: when the expiry handler of a timer (micro propose, micro view-change,
\* macro view-change) returns an error, the timer that fired is cleared in the
\* state the handler leaves.
C21_TimerClearedOnError ==
    Running =>
    \A net_ok \in BOOLEAN :
        LET r == PollTimers([W EXCEPT !.net_ok = net_ok], TRUE)
            t == PolledTimer(W)
        IN r.result = "Error" =>
              /\ t = "propose" => ~r.w.validation.propose_timer
              /\ t = "micro_view_change" => ~r.w.validation.view_change_timer
              /\ t = "macro_view_change" => ~r.w.validation.view_change_timer

\* Macro blocks for the tip, sealed by a supermajority, that are not the
\* proposal the engine holds: another body, another round, another parent.
ForkedMacroBlocks(w) ==
    LET p == w.validation.proposal
    IN { [p EXCEPT !.body = "y"], [p EXCEPT !.view_change = @ + 1],
         [p EXCEPT !.previous = ForeignHash] }

\* C22: in MacroBlockValidator with should_commit() true, a macro block whose
\* hash differs from the agreed proposal aborts the driver when it is about to
\* be applied, directly or from a sealed-block event, and the chain is left as
\* it was.
C22_NetworkForkAborts ==
    (Running /\ validation.kind = "MacroBlockValidator" /\ validation.should_commit) =>
    \A b \in ForkedMacroBlocks(W) :
        LET a == ApplyNewBlock(W, b)
            r == HandleSealedBlock(W, b, TRUE)
        IN /\ Hash(b) # Hash(validation.proposal)
           /\ a.result = "Panic" /\ a.w.chain_blocks = chain_blocks
           /\ r.result = "Panic" /\ r.w.chain_blocks = chain_blocks

\* A validator whose engine has committed to the proposal of the round and is
\* handed another macro block for the same height.
C22_Witness ==
    /\ Running /\ validation.kind = "MacroBlockValidator" /\ validation.should_commit
    /\ validation.proposal.height = Height(W)
    /\ \E b \in ForkedMacroBlocks(W) :
          /\ b.height = Height(W) /\ b.previous = validation.proposal.previous
          /\ HandleSealedBlock(W, b, TRUE).result = "Panic"

\* C24: when the event stream of the driver is closed, the poll that sees the
\* end of the stream completes the driver's future (Ready); it neither
\* aborts nor stays pending.
C24_ClosedStreamTerminates ==
    Running => \A ready \in BOOLEAN : Poll(W, ready, "None").result = "Ready"

\* What n notifications of one topic leave of a subscriber list: nothing
\* changes when none is emitted; otherwise the subscribers whose receiver is
\* there stay, in their order, each with the n messages, and the others are
\* gone.
FannedOut(before, after, n) ==
    IF n = 0 THEN after = before
    ELSE LET open == SelectSeq(before, LAMBDA ch : ch.open)
         IN /\ Len(after) = Len(open)
            /\ \A i \in 1..Len(open) :
                  /\ after[i].tx = open[i].tx /\ after[i].open
                  /\ Len(after[i].received) = n
            /\ \A i \in 1..Len(before) :
                  ~before[i].open => \A j \in 1..Len(after) : after[j].tx # before[i].tx

\* The outcomes of the events that notify: a sealed block (in order, forked,
\* orphaned, ill-formed), a pop_block request.
NotifyingOutcomes(w) ==
    { HandleSealedBlock(w, i.block, i.sig_ok) : i \in SealedBlockInputs(w) }
      \cup { HandleSealedBlock(w, b, TRUE) : b \in HonestBlockInputs(w) }
      \cup { HandlePopBlock(w) }

\* C25: each notification of an event (BlockAdded, EpochChanged,
\* OutputsChanged) reaches every subscriber whose receiver is open exactly
\* once, and these stay subscribed in their order; subscribers whose receiver
\* is closed are removed from the list and get nothing.
C25_FanOut ==
    Running =>
    \A r \in NotifyingOutcomes(W) :
        r.result # "Panic" =>
           /\ FannedOut(W.on_block_added, r.w.on_block_added, Len(r.w.out.block_added))
           /\ \A i \in DOMAIN r.w.on_block_added, k \in DOMAIN r.w.out.block_added :
                 /\ r.w.on_block_added[i].received[k].type = "BlockAdded"
                 /\ r.w.on_block_added[i].received[k].height = r.w.out.block_added[k].height
                 /\ r.w.on_block_added[i].received[k].hash = r.w.out.block_added[k].hash
           /\ FannedOut(W.on_epoch_changed, r.w.on_epoch_changed, r.w.out.epoch_changed)
           /\ FannedOut(W.on_outputs_changed, r.w.on_outputs_changed, r.w.out.outputs_changed)

\* A list with a subscriber whose receiver is gone and one whose receiver is
\* there, and a block whose notification fans out over it.
C25_Witness ==
    /\ Running
    /\ \E b \in HonestBlockInputs(W) :
          LET r == HandleSealedBlock(W, b, TRUE)
          IN /\ r.result = "Ok" /\ Len(r.w.out.block_added) = 1
             /\ Len(W.on_block_added) = 2 /\ Len(r.w.on_block_added) = 1
             /\ ~W.on_block_added[1].open
             /\ r.w.on_block_added[1].tx = W.on_block_added[2].tx
             /\ Len(r.w.on_block_added[1].received) = 1

\* Blocks offered for the tip: the well-formed one, the same with another
\* reward, the same on another parent, and a block of the kind the epoch does
\* not expect at this height.
OfferedBlocks(w) ==
    HonestBlockInputs(w)
      \cup { [b EXCEPT !.block_reward = @ + 1] : b \in HonestBlockInputs(w) }
      \cup { [b EXCEPT !.previous = ForeignHash] : b \in HonestBlockInputs(w) }
      \cup { IF Height(w) < MacroHeight(w)
             THEN MacroBlock(Height(w), 0, LastBlockHash(w), Leader(w), "x", 0, w.validators)
             ELSE MicroBlock(Height(w), 0, LastBlockHash(w), Leader(w), "x", cfg_block_reward,
                             NoProof) }

\* The outcomes of what may apply a block: apply_new_block on a block for the
\* tip, a pop_block request, a consensus message, an expired timer.
ApplyingOutcomes(w) ==
    { ApplyNewBlock(w, b) : b \in OfferedBlocks(w) }
      \cup { HandlePopBlock(w) }
      \cup { HandleConsensusMessage(w, msg) : msg \in ConsensusInputs(w) }
      \cup { PollTimers(w, TRUE) }

\* How many blocks of a kind a sequence of blocks holds.
CountKind(blocks, kind) == Cardinality({k \in DOMAIN blocks : blocks[k].kind = kind})

\* C26: in every event, BlockAdded is emitted once for each block pushed to
\* the chain, in order, with the block's height and hash, and for no other
\* block; one EpochChanged is emitted per macro block pushed, and one
\* OutputsChanged per micro block pushed (and one per micro block popped).
C26_NotifiedOncePerBlock ==
    Running =>
    \A r \in ApplyingOutcomes(W) :
        /\ Len(r.w.out.block_added) = Len(r.w.out.pushed)
        /\ \A k \in DOMAIN r.w.out.pushed :
              r.w.out.block_added[k] = [height |-> r.w.out.pushed[k].height,
                                        hash |-> Hash(r.w.out.pushed[k])]
        /\ r.w.out.epoch_changed = CountKind(r.w.out.pushed, "macro")
        /\ r.w.out.outputs_changed = CountKind(r.w.out.pushed, "micro") + r.w.out.popped
        /\ (r.result = "Ok" /\ Height(r.w) > Height(W)) => r.w.out.pushed # <<>>

\* A state in which one offered block is applied (a micro block: one
\* BlockAdded and one OutputsChanged) and three others are refused by
\* apply_new_block (wrong role, invalid reward, chain rejection) with nothing
\* emitted.
C26_Witness ==
    /\ Running
    /\ \E b \in OfferedBlocks(W) :
          LET a == ApplyNewBlock(W, b)
          IN /\ a.result = "Ok" /\ b.kind = "micro"
             /\ a.w.out.pushed = <<b>> /\ Len(a.w.out.block_added) = 1
             /\ a.w.out.outputs_changed = 1 /\ a.w.out.epoch_changed = 0
    /\ \A name \in {"ExpectedMacroBlock", "InvalidBlockReward", "InvalidPreviousHash"} :
          \E b \in OfferedBlocks(W) :
             LET a == ApplyNewBlock(W, b)
             IN /\ a.result = "Error" /\ a.err.name = name
                /\ a.w.out.pushed = <<>> /\ a.w.out.block_added = <<>>

\* C27: when the block received for the tip is refused by the chain with
\* InvalidPreviousHash, history is requested from the public key of the
\* producer of that block, and the drain stops: the tip stays where it was.
C27_HistoryFromProducer ==
    Running =>
    \A b \in BufferInputs(W) :
        LET r == HandleSealedBlock(W, b, TRUE)
            a == ApplyNewBlock(W, b)
        IN (b.height = Height(W) /\ a.result = "Error" /\ a.err.name = "InvalidPreviousHash") =>
              /\ r.err = a.err
              /\ r.w.out.request_history_from = <<b.pkey>>
              /\ Height(r.w) = Height(W)

\* The signatures are valid signatures over the hash by members of the
\* witness set.
ValidSignatures ==
    /\ DOMAIN msig.signed \subseteq msig.witnesses
    /\ \A k \in DOMAIN msig.signed : msig.signed[k] = msig.hash

\* C28 (as stated): whatever the witness set, the hash, the leader and the
\* valid signatures of witnesses over the hash, what create_multi_signature
\* returns is accepted by check_multi_signature for the same witnesses, hash
\* and leader.
C28_RoundTrip ==
    (msig.step = "checked" /\ ValidSignatures) => msig.accepted

\* C28 (amended): the same, when the leader is one of the signers.
C28_RoundTripLeaderSigned ==
    (msig.step = "checked" /\ ValidSignatures /\ msig.leader \in DOMAIN msig.signed)
        => msig.accepted

\* Two of three witnesses signed, the first in order did not, the leader is a
\* signer, and the multi-signature created was checked and accepted.
C28_Witness ==
    /\ msig.step = "checked" /\ ValidSignatures
    /\ msig.witnesses = Keys /\ DOMAIN msig.signed = {"B", "C"} /\ msig.leader = "C"
    /\ msig.multisigmap = {1, 2}
    /\ msig.accepted

\* C29: check_multi_signature refuses a multi-signature whose bitmap covers
\* less than two thirds of the stake (every witness holding one slot), also
\* when the leader's bit is set and the aggregate signature verifies.
C29_RejectsBelowSupermajority ==
    (/\ msig.step = "checked"
     /\ 3 * Cardinality(msig.multisigmap) < 2 * Cardinality(msig.witnesses))
        => ~msig.accepted

\* C30: validate accepts a message made by new with a matching key pair when
\* the proposal predicate accepts; it returns InvalidMessageSignature when
\* height, round, request_hash, body or sender key of such a message differ
\* from what was signed, or when the key pair given to new did not match,
\* whatever the predicate would answer; the predicate is called only
\* for a Proposal body with a valid signature, with the message's
\* request_hash, request and round, and its refusal gives InvalidPropose.
C30_Validate ==
    cmsg.step = "validated" =>
    LET m == cmsg.msg
        r == cmsg.result
        matching == cmsg.skey = cmsg.signed.pkey
        same == m = cmsg.signed
        proposal == m.body.kind = "Proposal"
    IN /\ (matching /\ same /\ (proposal => cmsg.request_ok)) => r.err = ""
       /\ (matching /\ ~same) => (r.err = "InvalidMessageSignature" /\ r.called = <<>>)
       /\ (~matching /\ same) => (r.err = "InvalidMessageSignature" /\ r.called = <<>>)
       /\ r.called # <<>> <=> (proposal /\ r.err # "InvalidMessageSignature")
       /\ r.called # <<>> => r.called = <<<<m.request_hash, m.body.request, m.round>>>>
       /\ r.err = "InvalidPropose" <=> (r.called # <<>> /\ ~cmsg.request_ok)
       /\ r.err \in {"", "InvalidMessageSignature", "InvalidPropose"}

\* A proposal signed with a matching key pair whose round was changed on the
\* way and that the predicate would refuse: validate answers
\* InvalidMessageSignature and the predicate is not called.
C30_Witness ==
    /\ cmsg.step = "validated"
    /\ cmsg.skey = cmsg.signed.pkey
    /\ cmsg.msg.body.kind = "Proposal" /\ cmsg.msg.body = cmsg.signed.body
    /\ cmsg.msg.round # cmsg.signed.round
    /\ ~cmsg.request_ok
    /\ cmsg.result = Validated("InvalidMessageSignature", <<>>)

----------------------------------------------------------------------------
\* Properties of the wallet's change calculation.

\* The sum of the amounts of the outputs named in spent.
RECURSIVE SumAmounts(_, _)
SumAmounts(unspent, spent) ==
    IF spent = <<>> THEN 0
    ELSE unspent[Head(spent)] + SumAmounts(unspent, Tail(spent))

\* The total of all unspent amounts.
TotalUnspent(unspent) == SumAmounts(unspent, [i \in DOMAIN unspent |-> i])

\* C31 as stated: whenever find_utxo returns (spent, fee_used, change) for
\* amounts that are not negative, the spent outputs are distinct unspent
\* outputs whose amounts sum to sum + fee_used + change, change is not
\* negative and fee_used is fee or fee_change; find_utxo succeeds whenever
\* the total of the unspent amounts is at least sum + fee_change, and returns
\* NotEnoughMoney whenever the total is below sum + fee.
C31_FindUtxoBelowFee ==
    wallet.step = "find_utxo" =>
    LET f == wallet.found
        total == TotalUnspent(wallet.unspent)
    IN /\ f.result = "Ok" =>
             /\ \A i \in DOMAIN f.spent : f.spent[i] \in DOMAIN wallet.unspent
             /\ \A i, j \in DOMAIN f.spent : i # j => f.spent[i] # f.spent[j]
             /\ SumAmounts(wallet.unspent, f.spent) = wallet.sum + f.fee + f.change
             /\ f.change >= 0
             /\ f.fee \in {wallet.fee, wallet.fee_change}
       /\ total >= wallet.sum + wallet.fee_change => f.result = "Ok"
       /\ total < wallet.sum + wallet.fee =>
             f.result = "Error" /\ f.err = "NotEnoughMoney"

\* C31 amended: for every sum, fee and fee_change that are not negative,
\* find_utxo never fails an assertion; whenever it returns (spent, fee_used,
\* change), the spent outputs are distinct unspent outputs whose amounts sum
\* to sum + fee_used + change, change is not negative and fee_used is fee or
\* fee_change; it succeeds whenever the total of the unspent amounts is at
\* least sum + fee_change; it returns NotEnoughMoney whenever the total is
\* below both sum + fee and sum + fee_change, hence whenever the total is
\* below sum + fee and fee <= fee_change; it fails with no other error.  With
\* fee_change < fee a total below sum + fee that reaches sum + fee_change is
\* spent at fee_change.
C31_FindUtxo ==
    wallet.step = "find_utxo" =>
    LET f == wallet.found
        total == TotalUnspent(wallet.unspent)
    IN /\ f.result # "Panic"
       /\ f.result = "Ok" =>
             /\ \A i \in DOMAIN f.spent : f.spent[i] \in DOMAIN wallet.unspent
             /\ \A i, j \in DOMAIN f.spent : i # j => f.spent[i] # f.spent[j]
             /\ SumAmounts(wallet.unspent, f.spent) = wallet.sum + f.fee + f.change
             /\ f.change >= 0
             /\ f.fee \in {wallet.fee, wallet.fee_change}
       /\ f.result = "Error" => f.err = "NotEnoughMoney"
       /\ total >= wallet.sum + wallet.fee_change => f.result = "Ok"
       /\ (total < wallet.sum + wallet.fee /\ total < wallet.sum + wallet.fee_change) =>
             f.result = "Error"
       /\ (total < wallet.sum + wallet.fee /\ wallet.fee <= wallet.fee_change) =>
             f.result = "Error"
       /\ (total < wallet.sum + wallet.fee /\ total >= wallet.sum + wallet.fee_change) =>
             f.result = "Ok" /\ f.fee = wallet.fee_change

\* find_utxo has returned several outputs, the change fee and a change, on
\* fees as the callers pass them.
C31_Witness ==
    /\ wallet.step = "find_utxo"
    /\ wallet.fee < wallet.fee_change
    /\ wallet.found.result = "Ok"
    /\ Len(wallet.found.spent) >= 2
    /\ wallet.found.fee = wallet.fee_change
    /\ wallet.found.change > 0

\* C32 as stated: whenever find_utxo returns (spent, fee_used, change),
\* fee_used equals fee if and only if change is zero.
C32_FeeIffNoChange ==
    (wallet.step = "find_utxo" /\ wallet.found.result = "Ok") =>
        (wallet.found.fee = wallet.fee <=> wallet.found.change = 0)

\* C32 amended: whenever find_utxo returns (spent, fee_used, change) with a
\* change, fee_used is fee_change; so, when fee and fee_change differ, a
\* result with fee_used = fee has no change.  A result with zero change may
\* charge either fee, and when fee = fee_change a result charged that fee may
\* carry a change.
C32_ChangeImpliesFeeChange ==
    (wallet.step = "find_utxo" /\ wallet.found.result = "Ok") =>
        /\ wallet.found.change > 0 => wallet.found.fee = wallet.fee_change
        /\ (wallet.fee # wallet.fee_change /\ wallet.found.fee = wallet.fee) =>
              wallet.found.change = 0

\* find_utxo has returned several outputs without a change, at the plain fee,
\* where the two fees differ.
C32_Witness ==
    /\ wallet.step = "find_utxo"
    /\ wallet.fee # wallet.fee_change
    /\ wallet.found.result = "Ok"
    /\ Len(wallet.found.spent) >= 2
    /\ wallet.found.fee = wallet.fee
    /\ wallet.found.change = 0

\* C39 as stated: create_unstaking_transaction fails with
\* ZeroOrNegativeAmount when amount <= PAYMENT_FEE; otherwise it returns a
\* transaction that unstakes everything (fee PAYMENT_FEE, the one output a
\* payment of amount - PAYMENT_FEE), or one that re-stakes the remainder (fee
\* PAYMENT_FEE + ESCROW_FEE, a payment of amount - PAYMENT_FEE and an escrow
\* output of the staked total - amount - ESCROW_FEE, more than PAYMENT_FEE),
\* or it fails with InsufficientStake.
C39_UnstakingOfTotal ==
    wallet.step = "unstaking" =>
    LET tx == wallet.tx
        amount == wallet.amount
        payment == TxOutput("payment", amount - PAYMENT_FEE)
        remainder == TotalUnspent(wallet.unspent) - amount - ESCROW_FEE
    IN /\ amount <= PAYMENT_FEE =>
             tx.result = "Error" /\ tx.err = "ZeroOrNegativeAmount"
       /\ amount > PAYMENT_FEE =>
             \/ /\ tx.result = "Ok"
                /\ tx.fee = PAYMENT_FEE
                /\ tx.outputs = <<payment>>
             \/ /\ tx.result = "Ok"
                /\ tx.fee = PAYMENT_FEE + ESCROW_FEE
                /\ tx.outputs = <<payment, TxOutput("escrow", remainder)>>
                /\ remainder > PAYMENT_FEE
             \/ tx.result = "Error" /\ tx.err = "InsufficientStake"

\* C39 amended: create_unstaking_transaction fails with ZeroOrNegativeAmount
\* when amount <= PAYMENT_FEE.  Otherwise it has one of four outcomes.  It
\* fails with NotEnoughMoney when find_utxo finds no stakes to cover the
\* amount: always when the stakes total less than amount, never when they
\* total amount + ESCROW_FEE or more.  It fails with
\* InsufficientStake(PAYMENT_FEE + 1, remainder) when the stakes selected
\* leave a remainder of PAYMENT_FEE or less after amount and ESCROW_FEE.  It
\* returns a transaction that unstakes all it spends (fee PAYMENT_FEE, the one
\* output a payment of amount - PAYMENT_FEE, the inputs summing to amount).
\* Or it returns one that re-stakes the remainder (fee PAYMENT_FEE +
\* ESCROW_FEE, a payment of amount - PAYMENT_FEE and an escrow output of the
\* stakes spent - amount - ESCROW_FEE, more than PAYMENT_FEE): the stakes
\* spent are the smallest ones that cover amount + ESCROW_FEE, not the whole
\* stake, the others stay staked, and the wallet's staked total becomes the
\* former total - amount - ESCROW_FEE.  No assertion fails.
C39_Unstaking ==
    wallet.step = "unstaking" =>
    LET tx == wallet.tx
        amount == wallet.amount
        total == TotalUnspent(wallet.unspent)
        staked == SumAmounts(wallet.unspent, tx.inputs)
        payment == TxOutput("payment", amount - PAYMENT_FEE)
        f == FindUtxo(wallet.unspent, amount - PAYMENT_FEE, PAYMENT_FEE,
                      PAYMENT_FEE + ESCROW_FEE)
    IN /\ amount <= PAYMENT_FEE =>
             tx.result = "Error" /\ tx.err = "ZeroOrNegativeAmount"
       /\ tx.result # "Panic"
       /\ amount > PAYMENT_FEE =>
             /\ tx.result = "Error" =>
                   tx.err \in {"NotEnoughMoney", "InsufficientStake"}
             /\ total < amount =>
                   tx.result = "Error" /\ tx.err = "NotEnoughMoney"
             /\ total >= amount + ESCROW_FEE =>
                   ~(tx.result = "Error" /\ tx.err = "NotEnoughMoney")
             /\ (tx.result = "Error" /\ tx.err = "NotEnoughMoney") <=>
                   f.result = "Error"
             /\ (tx.result = "Error" /\ tx.err = "InsufficientStake") <=>
                   /\ f.result = "Ok" /\ f.fee = PAYMENT_FEE + ESCROW_FEE
                   /\ f.change <= PAYMENT_FEE
             /\ (tx.result = "Error" /\ tx.err = "InsufficientStake") =>
                   /\ tx.min = PAYMENT_FEE + 1
                   /\ tx.got = SumAmounts(wallet.unspent, f.spent) - amount - ESCROW_FEE
                   /\ tx.got >= 0 /\ tx.got <= PAYMENT_FEE
             /\ tx.result = "Ok" =>
                   /\ \A i \in DOMAIN tx.inputs : tx.inputs[i] \in DOMAIN wallet.unspent
                   /\ \A i, j \in DOMAIN tx.inputs : i # j => tx.inputs[i] # tx.inputs[j]
                   /\ \/ /\ tx.fee = PAYMENT_FEE
                         /\ tx.outputs = <<payment>>
                         /\ staked = amount
                      \/ /\ tx.fee = PAYMENT_FEE + ESCROW_FEE
                         /\ tx.outputs =
                               <<payment, TxOutput("escrow", staked - amount - ESCROW_FEE)>>
                         /\ tx.outputs[2].amount > PAYMENT_FEE
                         /\ (total - staked) + tx.outputs[2].amount
                               = total - amount - ESCROW_FEE

\* Part of the stake was re-staked while another stake of the wallet was not
\* spent.
C39_Witness ==
    /\ wallet.step = "unstaking"
    /\ wallet.tx.result = "Ok"
    /\ Len(wallet.tx.outputs) = 2
    /\ wallet.tx.outputs[2].kind = "escrow"
    /\ Len(wallet.tx.inputs) < Len(wallet.unspent)
    /\ wallet.tx.outputs[2].amount
          # TotalUnspent(wallet.unspent) - wallet.amount - ESCROW_FEE

----------------------------------------------------------------------------
\* Properties of the role state and of the timers between events.

\* C33: after init, when an event handler has returned, the role is a micro
\* variant iff the epoch holds fewer than BlocksInEpoch blocks; a micro
\* block the chain accepts at the tip is then never refused with
\* ExpectedMicroBlock.
C33_RoleFollowsChain ==
    (initialized /\ ~aborted) =>
        /\ IsMicroRole(validation) <=> ChainBlocksInEpoch(W) < BlocksInEpoch
        /\ \A b \in BufferInputs(W) :
              (/\ b.kind = "micro" /\ b.height = Height(W)
               /\ ChainBlocksInEpoch(W) < BlocksInEpoch /\ MicroBlockError(W, b) = "")
                  => ApplyNewBlock(W, b).err.name # "ExpectedMicroBlock"

\* C34: whenever the propose timer is armed, and so may fire at the next
\* poll, the node is the leader for the chain's height and view and the
\* epoch expects a micro block: the assertions at the start of
\* create_micro_block hold.
C34_ProposerIsLeader ==
    (initialized /\ ~aborted /\ validation.kind = "MicroBlockValidator"
        /\ validation.propose_timer)
        => /\ Leader(W) = SelfKey
           /\ ChainBlocksInEpoch(W) < BlocksInEpoch

\* C35: a poll of the timers that finds the timer it polls not yet expired,
\* and so returns without calling an expiry handler, leaves every timer
\* that was armed before the call armed.
C35_UnexpiredTimersStayArmed ==
    (initialized /\ ~aborted) =>
    LET r == PollTimers(W, FALSE)
    IN /\ r.result = "Ok"
       /\ validation.propose_timer => r.w.validation.propose_timer
       /\ validation.view_change_timer => r.w.validation.view_change_timer

\* C36: the inputs plus the outputs held in the mempool never exceed
\* cfg.max_utxo_in_mempool, and a transaction that handle_transaction
\* rejects leaves the mempool as it was.
C36_MempoolBounded ==
    /\ MempoolInputsLen(mempool) + MempoolOutputsLen(mempool) <= MaxUtxoInMempool
    /\ \A tx \in Transactions, valid \in BOOLEAN :
          LET r == HandleTransaction(W, tx, valid)
          IN r.result = "Error" => r.w.mempool = mempool

\* A micro block signed by the leader of the tip that claims the height
\* after the tip while it builds on the tip.
SkippingBlocks(w) ==
    IF Height(w) + 1 <= w.last_macro_block_height + BlocksInEpoch /\ Leader(w) \in w.validators
    THEN { MicroBlock(Height(w) + 1, w.view_change, LastBlockHash(w), Leader(w), "x",
                      cfg_block_reward, w.view_change_proof) }
    ELSE {}

\* The heights of blocks run from first on, one by one.
Consecutive(blocks, first) == \A i \in DOMAIN blocks : blocks[i].height = first + i - 1

\* C37: every block handle_sealed_block hands to the chain carries the
\* chain's height of that moment: after the blocks a fork resolution popped,
\* the blocks pushed carry consecutive heights from the tip on and the tip
\* ends right after the last of them; the blocks of the chain carry the
\* heights from the last macro block on, one by one, so the tip height is
\* the last macro height plus the number of blocks applied in the epoch.
C37_ConsecutiveHeights ==
    (initialized /\ ~aborted) =>
        /\ Consecutive(chain_blocks, last_macro_block_height)
        /\ \A i \in SealedBlockInputs(W)
                      \cup { [block |-> b, sig_ok |-> TRUE] : b \in SkippingBlocks(W) } :
              LET r == HandleSealedBlock(W, i.block, i.sig_ok)
                  base == Height(W) - r.w.out.popped
              IN /\ Consecutive(r.w.out.pushed, base)
                 /\ Height(r.w) = base + Len(r.w.out.pushed)

\* A received block fills the gap below a buffered block: both are applied,
\* one after the other.
C37_Witness ==
    /\ initialized /\ ~aborted
    /\ \E i \in SealedBlockInputs(W) :
          LET r == HandleSealedBlock(W, i.block, i.sig_ok)
          IN r.result = "Ok" /\ Len(r.w.out.pushed) >= 2

\* C38: when the chain refuses a micro block offered at the tip with
\* InvalidViewChange, the chain's view is at least 1 and a proof is stored;
\* the driver does not panic, leaves the chain and its view as they are and
\* sends one sealed proof, to the block's producer, whose ChainInfo is the tip
\* height, the last block and the chain's view - 1, the chain info the stored
\* proof was made for.  With the network gone the send fails: its error is
\* the one returned and nothing else changes.
C38_ProofSentOnLowerView ==
    (initialized /\ ~aborted) =>
    \A b \in BufferInputs(W), net_ok \in BOOLEAN :
        LET r == HandleSealedBlock([W EXCEPT !.net_ok = net_ok], b, TRUE)
        IN (/\ b.kind = "micro" /\ b.height = Height(W)
            /\ IsMicroRole(validation)
            /\ (epoch > 0 => b.block_reward = cfg_block_reward)
            /\ MicroBlockError(W, b) = "InvalidViewChange")
           => /\ view_change >= 1 /\ view_change_proof.present
              /\ r.result = "Ok"
              /\ r.w.chain_blocks = chain_blocks
              /\ r.w.view_change = view_change
              /\ r.w.view_change_proof = view_change_proof
              /\ r.w.validation = validation
              /\ IF net_ok
                 THEN /\ r.err.name = "InvalidViewChange"
                      /\ r.w.out.sent_proofs
                           = <<[to |-> b.pkey,
                                chain |-> ChainInfo(Height(W), LastBlockHash(W),
                                                    view_change - 1),
                                proof |-> view_change_proof]>>
                      /\ ProofValidate(r.w.out.sent_proofs[1].proof,
                                       r.w.out.sent_proofs[1].chain)
                 ELSE r.err = NetworkError /\ r.w.out.sent_proofs = <<>>

\* The chain is at view 1 and a block of view 0 for the tip arrives.
C38_Witness ==
    /\ initialized /\ ~aborted /\ view_change >= 1
    /\ \E b \in BufferInputs(W) :
          /\ b.kind = "micro" /\ b.height = Height(W) /\ b.view_change < view_change
          /\ LET r == HandleSealedBlock(W, b, TRUE)
             IN r.err.name = "InvalidViewChange" /\ Len(r.w.out.sent_proofs) = 1

====
